---- MODULE Spec2Model ----
(***************************************************************************)
(* The song-info serverless function (api/song-info.js): slug and HTML     *)
(* helpers, the hybrid cache (in-process Map over a persistent KV store),  *)
(* fetchSongInfo and the HTTP handler.                                     *)
(*                                                                         *)
(* Texts are sequences of one-character strings, so that toLowerCase,      *)
(* String.includes, the regular expressions and the template string of     *)
(* the cache key are computed, not assumed.  A nullable field is <<>>      *)
(* (null) or <<v>>.  A handler invocation runs in a slot r \in Reqs; its   *)
(* position pc is the await it is suspended on, and one action is the      *)
(* synchronous code between two awaits.                                    *)
(***************************************************************************)
EXTENDS Integers, Sequences, FiniteSets, TLC

\* ------------------------------------------------------------------ bounds
NumReqs == 2
MaxRequests == 2
MaxTicks == 3
TickMs == 900000
MaxSlugLen == 4
NumSearches == 2
MaxSearches == 2
MaxTracks == 3
ConcurrentTicks == 1
MaxKeyLen == 2
MaxSubmits == 3

\* --------------------------------------------------------------- constants
CACHE_TTL_SECONDS == 60 * 30
CACHE_TTL_MS == CACHE_TTL_SECONDS * 1000
MAX_MEMORY_CACHE_SIZE == 50

Null == << >>
Some(v) == << v >>

\* ------------------------------------------------------------------- texts
UpperToLower ==
  ("A" :> "a") @@ ("B" :> "b") @@ ("C" :> "c") @@ ("M" :> "m") @@ ("P" :> "p")

\* String.prototype.toLowerCase
ToLowerCase(s) ==
  [i \in 1..Len(s) |-> IF s[i] \in DOMAIN UpperToLower THEN UpperToLower[s[i]] ELSE s[i]]

\* String.prototype.includes
Includes(s, sub) ==
  \E i \in 1..(Len(s) - Len(sub) + 1) : SubSeq(s, i, i + Len(sub) - 1) = sub

IsSpace(c) == c = " "

RECURSIVE TrimStart(_)
TrimStart(s) == IF s # << >> /\ IsSpace(Head(s)) THEN TrimStart(Tail(s)) ELSE s

RECURSIVE TrimEnd(_)
TrimEnd(s) ==
  IF s # << >> /\ IsSpace(s[Len(s)]) THEN TrimEnd(SubSeq(s, 1, Len(s) - 1)) ELSE s

\* String.prototype.trim
Trim(s) == TrimEnd(TrimStart(s))

DigitValue ==
  ("0" :> 0) @@ ("1" :> 1) @@ ("2" :> 2) @@ ("3" :> 3) @@ ("4" :> 4) @@
  ("5" :> 5) @@ ("6" :> 6) @@ ("7" :> 7) @@ ("8" :> 8) @@ ("9" :> 9)

DigitChar == <<"0", "1", "2", "3", "4", "5", "6", "7", "8", "9">>

\* text.match(/^\d+$/)
MatchesDigits(s) == Len(s) > 0 /\ \A i \in 1..Len(s) : s[i] \in DOMAIN DigitValue

\* parseInt(text) of a text of decimal digits
RECURSIVE ParseInt(_)
ParseInt(s) ==
  IF s = << >> THEN 0
  ELSE 10 * ParseInt(SubSeq(s, 1, Len(s) - 1)) + DigitValue[s[Len(s)]]

\* the decimal digits of n, 0 <= n < 100
Decimal(n) ==
  IF n < 10 THEN << DigitChar[n + 1] >>
  ELSE << DigitChar[(n \div 10) + 1], DigitChar[(n % 10) + 1] >>

\* ------------------------------------------------------------------- slugs
\* Texts here hold no line terminator, so the "." of a regular expression
\* matches every character of them.
IsLower(c) ==
  c \in { "a", "b", "c", "d", "e", "f", "g", "h", "i", "j", "k", "l", "m",
          "n", "o", "p", "q", "r", "s", "t", "u", "v", "w", "x", "y", "z" }
IsDigit(c) == c \in DOMAIN DigitValue

\* the first index from `from` on at which sub occurs in s, 0 if there is none
IndexFrom(s, sub, from) ==
  LET hits == { i \in from..(Len(s) - Len(sub) + 1) :
                  SubSeq(s, i, i + Len(sub) - 1) = sub }
  IN IF hits = {} THEN 0 ELSE CHOOSE i \in hits : \A j \in hits : i <= j

FeatWord == << "f", "e", "a", "t" >>
FtWord == << "f", "t" >>

\* .replace(/\(word\.?.*?\)/gi, ''): each "(word", with the shortest text up
\* to a ")", is removed
RECURSIVE RemoveParenthesized(_, _)
RemoveParenthesized(s, word) ==
  LET open == IndexFrom(s, << "(" >> \o word, 1)
      close == IF open = 0 THEN 0 ELSE IndexFrom(s, << ")" >>, open + 1 + Len(word))
  IN IF open = 0 \/ close = 0 THEN s
     ELSE SubSeq(s, 1, open - 1)
            \o RemoveParenthesized(SubSeq(s, close + 1, Len(s)), word)

\* .replace(/word\.?.*$/gi, ''): the text is cut at the first occurrence of word
RemoveToEnd(s, word) ==
  LET at == IndexFrom(s, word, 1)
  IN IF at = 0 THEN s ELSE SubSeq(s, 1, at - 1)

\* the characters /[^a-z0-9\s-]/g leaves (normalizeForUrl)
UrlChar(c) == IsLower(c) \/ IsDigit(c) \/ IsSpace(c) \/ c = "-"
\* the characters /[^a-z0-9\s]/g leaves (createSlug)
SlugChar(c) == IsLower(c) \/ IsDigit(c) \/ IsSpace(c)

\* .replace(/\s+/g, '-')
RECURSIVE SpacesToHyphen(_)
SpacesToHyphen(s) ==
  IF s = << >> THEN << >>
  ELSE IF IsSpace(Head(s)) THEN << "-" >> \o SpacesToHyphen(TrimStart(Tail(s)))
  ELSE << Head(s) >> \o SpacesToHyphen(Tail(s))

\* mutant: runs of hyphens are left as they are
CollapseHyphens_Skipped(s) == s

\* .replace(/-+/g, '-')
RECURSIVE CollapseHyphens(_)
CollapseHyphens(s) ==
  IF Len(s) < 2 THEN s
  ELSE IF s[1] = "-" /\ s[2] = "-" THEN CollapseHyphens(Tail(s))
  ELSE << Head(s) >> \o CollapseHyphens(Tail(s))

\* .replace(/^-|-$/g, ''): one hyphen at the start, one at the end
StripEdgeHyphens(s) ==
  LET t == IF s # << >> /\ Head(s) = "-" THEN Tail(s) ELSE s
  IN IF t # << >> /\ t[Len(t)] = "-" THEN SubSeq(t, 1, Len(t) - 1) ELSE t

normalizeForUrl(text) ==
  StripEdgeHyphens(CollapseHyphens(SpacesToHyphen(SelectSeq(
    RemoveParenthesized(RemoveParenthesized(Trim(ToLowerCase(text)), FeatWord), FtWord),
    UrlChar))))

createSlug(text) ==
  Trim(StripEdgeHyphens(CollapseHyphens(SpacesToHyphen(SelectSeq(
    RemoveToEnd(RemoveToEnd(
      RemoveParenthesized(RemoveParenthesized(ToLowerCase(text), FeatWord), FtWord),
      FeatWord), FtWord),
    SlugChar)))))

\* --------------------------------------------------------- extractSongInfo
GenreMajor == <<"m", "a", "j", "o", "r">>
GenreMinor == <<"m", "i", "n", "o", "r">>

\* the genre vocabulary of extractSongInfo
genres == {
  <<"p", "o", "p">>, <<"r", "o", "c", "k">>, <<"r", "&", "b">>,
  <<"h", "i", "p", " ", "h", "o", "p">>,
  <<"e", "l", "e", "c", "t", "r", "o", "n", "i", "c">>,
  <<"d", "a", "n", "c", "e">>, <<"j", "a", "z", "z">>,
  <<"c", "l", "a", "s", "s", "i", "c", "a", "l">>, <<"s", "o", "u", "l">>,
  <<"i", "n", "d", "i", "e">>,
  <<"a", "l", "t", "e", "r", "n", "a", "t", "i", "v", "e">> }

EmptyInfo == [bpm |-> Null, key |-> Null, genre |-> Null]

\* mutant: the upper limit is forgotten
BpmInRange_NoUpperLimit(bpm) == bpm >= 40

\* the bpm test of one <dd> text: bare digits, 40..240
BpmInRange(bpm) == bpm >= 40 /\ bpm <= 240

\* the body of ddTags.each for one element: result after looking at text
ExtractStep(result, rawText) ==
  LET text == Trim(rawText)
      r1 == IF MatchesDigits(text) /\ ~Includes(text, <<":">>)
               /\ BpmInRange(ParseInt(text)) /\ result.bpm = Null
            THEN [result EXCEPT !.bpm = Some(ParseInt(text))]
            ELSE result
      textLower == ToLowerCase(text)
      r2 == IF (Includes(textLower, GenreMajor) \/ Includes(textLower, GenreMinor))
               /\ r1.key = Null
            THEN [r1 EXCEPT !.key = Some(text)]
            ELSE r1
      r3 == IF r2.genre = Null /\ \E g \in genres : Includes(textLower, g)
            THEN [r2 EXCEPT !.genre = Some(text)]
            ELSE r2
  IN IF text = << >> THEN result ELSE r3

RECURSIVE ExtractFrom(_, _)
ExtractFrom(result, dds) ==
  IF dds = << >> THEN result
  ELSE ExtractFrom(ExtractStep(result, Head(dds)), Tail(dds))

\* extractSongInfo(html): html is the sequence of the page's <dd> texts
extractSongInfo(html) == ExtractFrom(EmptyInfo, html)

\* ------------------------------------------------------------- cache keys
KeyPrefix == <<"s", "o", "n", "g", ":">>

getCacheKey(artist, title) ==
  KeyPrefix \o ToLowerCase(artist) \o <<":">> \o ToLowerCase(title)

\* ------------------------------------------------------------ the JS Map
\* memoryCache is a Map: a sequence of [key, data, timestamp] in insertion
\* order, one entry per key.
MapHas(m, k) == \E i \in 1..Len(m) : m[i].key = k

MapGet(m, k) == m[CHOOSE i \in 1..Len(m) : m[i].key = k]

\* Map.prototype.set: an existing key keeps its place, a new key goes last
MapSet(m, k, data, timestamp) ==
  LET e == [key |-> k, data |-> data, timestamp |-> timestamp]
  IN IF MapHas(m, k)
     THEN [i \in 1..Len(m) |-> IF m[i].key = k THEN e ELSE m[i]]
     ELSE Append(m, e)

\* Map.prototype.delete
MapDelete(m, k) == SelectSeq(m, LAMBDA e : e.key # k)

\* mutant: the comparison is inverted
isExpired_Inverted(memEntry, t) == t - memEntry.timestamp <= CACHE_TTL_MS

\* mutant: an entry of exactly the TTL's age counts as expired
isExpired_AtTtl(memEntry, t) == t - memEntry.timestamp >= CACHE_TTL_MS

\* getCache: const isExpired = Date.now() - memEntry.timestamp > CACHE_TTL_MS
isExpired(memEntry, t) == t - memEntry.timestamp > CACHE_TTL_MS

\* getCache, the synchronous part: TRUE when the memory entry is served
MemoryHit(m, k, t) == MapHas(m, k) /\ ~isExpired(MapGet(m, k), t)

\* getCache, the synchronous part on a miss: an expired entry is deleted
MemoryAfterMiss(m, k) == IF MapHas(m, k) THEN MapDelete(m, k) ELSE m

\* mutant: a KV hit is returned without being promoted
Promote_Skipped(m, k, kvData, t) == m

\* getCache: the promotion of a KV hit into the memory cache
Promote(m, k, kvData, t) == MapSet(m, k, kvData, t)

\* mutant: at capacity the key inserted last is evicted
EvictIfFull_Newest(m) ==
  IF Len(m) >= MAX_MEMORY_CACHE_SIZE THEN MapDelete(m, m[Len(m)].key) ELSE m

\* mutant: the oldest key is evicted at every set
EvictIfFull_Always(m) == IF m = << >> THEN m ELSE MapDelete(m, m[1].key)

\* setCache, step 1: evict the oldest key at capacity
EvictIfFull(m) ==
  IF Len(m) >= MAX_MEMORY_CACHE_SIZE THEN MapDelete(m, m[1].key) ELSE m

\* mutant: a full cache takes no new entry
SetCacheMemory_DropWhenFull(m, k, data, t) ==
  IF Len(m) >= MAX_MEMORY_CACHE_SIZE THEN m ELSE MapSet(m, k, data, t)

\* setCache, step 1: store in the memory cache
SetCacheMemory(m, k, data, t) == MapSet(EvictIfFull(m), k, data, t)

\* ------------------------------------------------------------ the KV store
NoEntry == [present |-> FALSE]

\* kv.set(key, data, { ex: CACHE_TTL_SECONDS }) at time t
KvSetEntry(data, t) ==
  [present |-> TRUE, data |-> data, expiresAt |-> t + CACHE_TTL_SECONDS * 1000]

\* kv.get(key) at time t answers a value: the store drops a key at its expiry
KvLive(store, k, t) == store[k].present /\ t < store[k].expiresAt

\* ------------------------------------------------------------- the inputs
\* req.query.artist / req.query.title: a text, undefined (parameter absent),
\* or an array (parameter given twice), which is truthy and has no
\* toLowerCase
Undefined == << "(undefined)" >>
ArrayParam == << "(array)" >>

Artists == { <<"A">>, <<"!">> }
Titles == { <<"x">> }
QueryArtists == Artists \cup { Undefined, << >>, ArrayParam }
QueryTitles == Titles \cup { Undefined }
Methods == { "GET", "OPTIONS", "POST" }

\* mutant: only an absent parameter is refused
Falsy_UndefinedOnly(param) == param = Undefined

\* !artist, !title
Falsy(param) == param = Undefined \/ param = << >>

\* the keys of every text a query can carry
AllKeys == { getCacheKey(a, t) : a \in Artists \cup { << >> }, t \in Titles \cup { << >> } }

\* pages of the provider, as the texts of their <dd> elements; PageFirstWins
\* is the page behind the entry the KV store holds at the start
PageSong ==
  << <<"2", "4", "1">>, <<" ", "1", "2", "0">>,
     <<"C", " ", "M", "a", "j", "o", "r">>, <<"P", "o", "p">> >>
PageFirstWins == << <<"2", "4", "0">>, <<"4", "0">> >>
PageNoBpm ==
  << <<"3", "9">>, <<"1", "0", "0", "0">>, <<" ">>, <<"1", ":", "2">>,
     <<"a", " ", "m", "i", "n", "o", "r">> >>
Pages == { PageSong, PageNoBpm }

\* the HTTP status a fetch ends with; 0 is a request that got no answer
\* (timeout after 10 s, network error)
NoAnswer == 0
DirectStatuses == { 200, 404, 500, NoAnswer }
ArtistStatuses == { 200, 204, 404, 500, NoAnswer }
SongStatuses == { 200, 404, NoAnswer }

\* mutant: the direct fetch keeps axios' default, which refuses a 404
DirectValidateStatus_Only2xx(status) == status >= 200 /\ status < 300

\* axios.get(directUrl, { validateStatus: (status) => status < 500 })
DirectValidateStatus(status) == status < 500

\* axios' default validateStatus
DefaultValidateStatus(status) == status >= 200 /\ status < 300

\* axios.get rejects: no answer, or a status validateStatus refuses
DirectThrows(status) == status = NoAnswer \/ ~DirectValidateStatus(status)
DefaultThrows(status) == status = NoAnswer \/ ~DefaultValidateStatus(status)

\* ------------------------------------------------------ the provider's URLs
\* the origin every URL of fetchSongInfo starts with, as one symbol
SongBpm == << "https://songbpm.com" >>

\* `/@${artistSlug}/${titleSlug}` and `/@${artistSlug}`
SongPath(artistSlug, titleSlug) == << "/", "@" >> \o artistSlug \o << "/" >> \o titleSlug
ArtistPath(artistSlug) == << "/", "@" >> \o artistSlug

\* const directUrl = `https://songbpm.com/@${artistSlug}/${titleSlug}`
DirectUrl(artist, title) ==
  SongBpm \o SongPath(normalizeForUrl(artist), normalizeForUrl(title))

\* const artistUrl = `https://songbpm.com/@${artistSlug}`
ArtistUrl(artist) == SongBpm \o ArtistPath(normalizeForUrl(artist))

\* the links an artist page may carry for a song: its canonical path, the
\* path with a hash suffix, and a link to another song
ArtistLinks(artistSlug, titleSlug) ==
  { [href |-> SongPath(artistSlug, titleSlug), text |-> << "A" >>],
    [href |-> SongPath(artistSlug, titleSlug) \o << "-", "1" >>, text |-> << "A" >>],
    [href |-> SongPath(artistSlug, << "o" >>), text |-> << "B" >>] }

\* $('a[href*="/@' + artistSlug + '/"]') and the test inside links.each
LinkMatches(link, artistSlug, titleSlug) ==
  /\ Includes(link.href, ArtistPath(artistSlug) \o << "/" >>)
  /\ \/ Includes(ToLowerCase(link.href), titleSlug)
     \/ Includes(ToLowerCase(link.text), titleSlug)

\* ------------------------------------------------- searchSpotifyAPI: scoring
\* String.prototype.split(/\s+/)
RECURSIVE SplitSpaces(_)
SplitSpaces(s) ==
  LET at == IndexFrom(s, << " " >>, 1)
  IN IF at = 0 THEN << s >>
     ELSE << SubSeq(s, 1, at - 1) >> \o SplitSpaces(TrimStart(SubSeq(s, at, Len(s))))

\* String.prototype.startsWith
StartsWith(s, prefix) ==
  Len(prefix) <= Len(s) /\ SubSeq(s, 1, Len(prefix)) = prefix

RECURSIVE SumSeq(_)
SumSeq(q) == IF q = << >> THEN 0 ELSE Head(q) + SumSeq(Tail(q))

\* what one word of the query adds to the score of a track
WordPoints(word, trackTitle, trackArtist) ==
  IF Len(word) >= 2
  THEN (IF Includes(trackTitle, word) THEN 20 ELSE 0)
       + (IF Includes(trackArtist, word) THEN 5 ELSE 0)
       + (IF StartsWith(trackTitle, word) THEN 10 ELSE 0)
  ELSE 0

\* the words of the title, of 3 characters or more, that no word of the
\* query contains or is contained in
UnmatchedWords(trackTitle, queryWords) ==
  LET trackWords == SplitSpaces(trackTitle)
  IN { i \in 1..Len(trackWords) :
         /\ Len(trackWords[i]) >= 3
         /\ ~\E j \in 1..Len(queryWords) :
               \/ Includes(queryWords[j], trackWords[i])
               \/ Includes(trackWords[i], queryWords[j]) }

\* Five times the score of the loop body: the body adds track.popularity / 5,
\* so five times the score is an integer, and every comparison of scores is
\* the comparison of their fivefolds.
Score5(track, query) ==
  LET trackTitle == ToLowerCase(track.name)
      trackArtist == ToLowerCase(track.artist)
      queryWords == SplitSpaces(ToLowerCase(query))
      points ==
        SumSeq([j \in 1..Len(queryWords) |->
                  WordPoints(queryWords[j], trackTitle, trackArtist)])
        + (IF trackTitle = ToLowerCase(query) THEN 100 ELSE 0)
        + (IF Includes(trackTitle, ToLowerCase(query)) THEN 30 ELSE 0)
        + (IF track.popularity >= 80 THEN 30 ELSE 0)
        - Cardinality(UnmatchedWords(trackTitle, queryWords)) * 8
  IN 5 * points + track.popularity

\* let bestTrack = tracks[0]; let bestScore = -1
InitialBest == [index |-> 1, score5 |-> 5 * (0 - 1)]

\* mutant: a later track of equal score replaces the best one
Better_OrEqual(score5, bestScore5) == score5 >= bestScore5

\* if (score > bestScore)
Better(score5, bestScore5) == score5 > bestScore5

\* for (const track of tracks): the loop from track i on
RECURSIVE ScoringLoop(_, _, _, _)
ScoringLoop(tracks, query, i, best) ==
  IF i > Len(tracks) THEN best
  ELSE ScoringLoop(tracks, query, i + 1,
         IF Better(Score5(tracks[i], query), best.score5)
         THEN [index |-> i, score5 |-> Score5(tracks[i], query)]
         ELSE best)

\* tracks.reduce((prev, current) => current.popularity > prev.popularity ? current : prev)
RECURSIVE MostPopularFrom(_, _, _)
MostPopularFrom(tracks, i, prev) ==
  IF i > Len(tracks) THEN prev
  ELSE MostPopularFrom(tracks, i + 1,
         IF tracks[i].popularity > tracks[prev].popularity THEN i ELSE prev)

MostPopular(tracks) == MostPopularFrom(tracks, 2, 1)

\* mutant: one of the two conditions is enough
LowConfidence_Either(track, bestScore5) ==
  track.popularity < 30 \/ bestScore5 < 5 * 40

\* if (track.popularity < 30 && bestScore < 40)
LowConfidence(track, bestScore5) ==
  track.popularity < 30 /\ bestScore5 < 5 * 40

\* if (mostPopular.popularity >= 60)
PopularEnough(track) == track.popularity >= 60

\* the object searchSpotifyAPI returns for the track at index i (its title
\* and artist are those of the track); index is history: the place of the
\* track in the catalog's answer
TrackResult(tracks, i, confidence) ==
  [trackId |-> tracks[i].id, popularity |-> Some(tracks[i].popularity),
   source |-> "spotify-api", confidence |-> confidence, index |-> i]

\* searchSpotifyAPI from the scoring loop to its return
SelectTrack(tracks, query) ==
  LET best == ScoringLoop(tracks, query, 1, InitialBest)
      track == tracks[best.index]
      mostPopular == MostPopular(tracks)
  IN IF LowConfidence(track, best.score5) /\ PopularEnough(tracks[mostPopular])
     THEN TrackResult(tracks, mostPopular, "medium")
     ELSE TrackResult(tracks, best.index,
                      IF best.score5 > 5 * 50 THEN "high" ELSE "medium")

\* searchSpotify of api/search.js: tracks[0], the best match of the catalog
FirstTrack(tracks) == TrackResult(tracks, 1, "")

\* ------------------------------------------------------------- the state
Reqs == 1..NumReqs
MaxNow == MaxTicks * TickMs

VARIABLES
  memoryCache,  \* the module's Map, in insertion order
  kv,           \* the KV store: key -> NoEntry or a stored value
  now,          \* Date.now(), in ms
  req,          \* per slot: the handler invocation running in it
  started,      \* handler invocations begun so far
  concurrent,   \* whether invocations may overlap (fixed at the start)
  lastOp,       \* history: the setCache that was the latest cache operation
  resolved      \* history: the fetchSongInfo that returned last: its key, when

\* the slug normalizers, applied to a text
VARIABLES
  slug          \* the text, the normalizer, its output, the output's output

\* the choice searchSpotifyAPI makes among the tracks of a catalog answer
VARIABLES
  selection     \* the query, the tracks, the track returned

\* the catalog search: the token caches of spotifyAuth.js ("backend") and of
\* api/search.js ("api"), and the search requests
VARIABLES
  credentials,     \* SPOTIFY_CLIENT_ID and SPOTIFY_CLIENT_SECRET are both set
  cachedToken,     \* per implementation: let cachedToken
  tokenExpiresAt,  \* per implementation: let tokenExpiresAt
  search,          \* per slot: the search request running in it
  searches,        \* search requests begun so far
  acquired,        \* history: per implementation, the exchange behind cachedToken
  failed           \* history: per implementation, the exchanges that failed

\* getCacheKey, applied to two (artist, title) pairs
VARIABLES
  keyed         \* the two pairs, their keys

\* the component App of the frontend
VARIABLES
  app           \* its useState values, and the handleSubmitQuery under way

songInfoVars == << memoryCache, kv, req, started, concurrent, lastOp, resolved >>
searchVars == << credentials, cachedToken, tokenExpiresAt, search, searches, acquired,
                failed >>
pureVars == << slug, selection, keyed >>
vars == << songInfoVars, now, pureVars, searchVars, app >>

\* what the song-info handler never touches
otherModules == << pureVars, searchVars, app >>

NoRes == [status |-> 0]
Never == 0 - 1
NoOp == [op |-> "other"]
NoMem == [present |-> FALSE]

IdleReq ==
  [pc |-> "idle", method |-> "", artist |-> Undefined, title |-> Undefined,
   cacheKey |-> << >>, info |-> EmptyInfo, scraped |-> FALSE, didSet |-> FALSE,
   ops |-> << >>, fetches |-> << >>, songUrl |-> Null, res |-> NoRes,
   startedAt |-> 0, kvReadAt |-> 0,
   \* history, taken as fetchSongInfo is entered
   priorAt |-> Never, priorMem |-> NoMem, priorKv |-> [present |-> FALSE],
   priorOp |-> NoOp]

\* the entries an instance holds after n lookups of other songs while the
\* KV store was unreachable
FillerInfo == [bpm |-> Some(100), key |-> Null, genre |-> Null]
Fillers(n) ==
  [i \in 1..n |-> [key |-> getCacheKey(<<"f">>, Decimal(i)),
                   data |-> FillerInfo, timestamp |-> 0]]
InitFills == { 0, MAX_MEMORY_CACHE_SIZE }

PreloadKey == getCacheKey(<<"a">>, <<"x">>)
PreloadInfo == extractSongInfo(PageFirstWins)

\* The instance starts with an empty Map, or is entered at a point where it
\* has filled its Map with other songs; the KV store is empty or still holds
\* a song this instance (or another one) stored at time 0.
InitCacheWith(fills) ==
  /\ \E n \in fills :
       /\ memoryCache = Fillers(n)
       /\ kv = [k \in AllKeys |->
                  IF n > 0 /\ k = PreloadKey THEN KvSetEntry(PreloadInfo, 0) ELSE NoEntry]
  /\ now = 0
  /\ req = [r \in Reqs |-> IdleReq]
  /\ started = 0
  /\ lastOp = NoOp
  /\ resolved = [key |-> << >>, at |-> Never]

InitCache == InitCacheWith(InitFills)

\* no text has been given to a slug normalizer
NoSlug == [step |-> 0, fn |-> "", text |-> << >>, out |-> << >>, again |-> << >>]

\* no catalog answer has been given to the scoring loop
NoSelection == [step |-> 0, query |-> << >>, tracks |-> << >>, result |-> Null]

\* no pair has been given to getCacheKey
NoPair == [artist |-> << >>, title |-> << >>]
NoKeyed == [step |-> 0, first |-> NoPair, second |-> NoPair, keys |-> << >>]

\* App as it mounts: the initial values of its useState calls
InitApp ==
  [pc |-> "idle", text |-> << >>,
   trackTitle |-> << >>, trackArtist |-> << >>, trackId |-> << >>,
   spotifyUrl |-> Null, isLoading |-> FALSE,
   bpm |-> Null, key |-> Null, genre |-> Null, transitionActive |-> FALSE,
   track |-> Null, submits |-> 0, path |-> ""]

\* the two implementations of the catalog search: routes/search.js with
\* utils/spotifyAuth.js, and api/search.js
Impls == { "backend", "api" }
Searches == 1..NumSearches

NoExchange == [done |-> FALSE]
IdleSearch ==
  [pc |-> "idle", impl |-> "", method |-> "", query |-> Undefined,
   cleanQuery |-> << >>, token |-> Null, tracks |-> << >>,
   returned |-> "", result |-> Null, res |-> NoRes,
   \* history: when the token function was called, what it found cached,
   \* whether it exchanged, what failed
   tokenAt |-> 0, tokenFrom |-> "", priorToken |-> Null,
   priorAcquired |-> NoExchange, failure |-> ""]

\* the module-level state of the search as the process starts
InitSearch ==
  /\ cachedToken = [i \in Impls |-> Null]
  /\ tokenExpiresAt = [i \in Impls |-> 0]
  /\ search = [s \in Searches |-> IdleSearch]
  /\ searches = 0
  /\ acquired = [i \in Impls |-> NoExchange]
  /\ failed = [i \in Impls |-> 0]

\* one invocation at a time
Init ==
  /\ InitCache /\ concurrent = FALSE
  /\ slug = NoSlug /\ selection = NoSelection /\ keyed = NoKeyed
  /\ credentials = TRUE /\ InitSearch /\ app = InitApp

\* --------------------------------------------------------- results, catches
\* mutant: every scraped result is cached
ShouldCache_Always(info) == TRUE

\* if (info.bpm): the scraped result is cached and returned
ShouldCache(info) == info.bpm # Null

\* mutant: fromCache is not set
CacheHitResult_NoFromCache(data, cacheLayer) ==
  [bpm |-> data.bpm, key |-> data.key, genre |-> data.genre,
   cacheLayer |-> Some(cacheLayer), fromCache |-> Null]

\* getCache's return on a hit, with fetchSongInfo's fromCache: true
CacheHitResult(data, cacheLayer) ==
  [bpm |-> data.bpm, key |-> data.key, genre |-> data.genre,
   cacheLayer |-> Some(cacheLayer), fromCache |-> Some(TRUE)]

\* fetchSongInfo's return of a scraped info, or of the final all-null record
FreshResult(info) ==
  [bpm |-> info.bpm, key |-> info.key, genre |-> info.genre,
   cacheLayer |-> Null, fromCache |-> Null]

\* handler: res.status(200).json({...})
HandlerJson(result) ==
  [status |-> 200, bpm |-> result.bpm, key |-> result.key, genre |-> result.genre,
   cached |-> IF result.fromCache # Null THEN result.fromCache[1] ELSE FALSE,
   cacheLayer |-> IF result.cacheLayer # Null THEN result.cacheLayer[1] ELSE "fresh"]

\* mutants: a catch block that throws the error on
ScrapeCatch_Rethrow == "rethrow"
KvWriteCatch_Rethrow == "rethrow"

\* what each catch block does with the error: "swallow" (log, go on) or "rethrow"
\* fetchSongInfo's catch
ScrapeCatch == "swallow"
\* getCache's catch
KvReadCatch == "swallow"
\* setCache's catch
KvWriteCatch == "swallow"

\* handler's own catch: res.status(500)
HandlerErrorRes == [status |-> 500]

\* ----------------------------------------------------------------- history
\* the fetchSongInfo of slot r has returned (or thrown) now
NoteResolved(r) == resolved' = [key |-> req[r].cacheKey, at |-> now]

\* ------------------------------------------------------- handler: the entry
CanStart(r) ==
  /\ req[r].pc = "idle"
  /\ started < MaxRequests
  /\ IF concurrent
     THEN \A o \in 1..(r - 1) : req[o].pc # "idle"
     ELSE r = 1 /\ \A o \in Reqs : req[o].pc = "idle"

\* if (req.method === 'OPTIONS') return res.status(200).end()
HandlerOptions(r) ==
  /\ CanStart(r)
  /\ req' = [req EXCEPT ![r] = [IdleReq EXCEPT !.pc = "done", !.method = "OPTIONS",
                                               !.res = [status |-> 200]]]
  /\ started' = started + 1
  /\ UNCHANGED << memoryCache, kv, now, concurrent, lastOp, resolved >>
  /\ UNCHANGED otherModules

\* if (req.method !== 'GET') return res.status(405)
HandlerMethodNotAllowed(r) ==
  /\ CanStart(r)
  /\ \E method \in Methods \ { "GET", "OPTIONS" } :
       req' = [req EXCEPT ![r] = [IdleReq EXCEPT !.pc = "done", !.method = method,
                                                 !.res = [status |-> 405]]]
  /\ started' = started + 1
  /\ UNCHANGED << memoryCache, kv, now, concurrent, lastOp, resolved >>
  /\ UNCHANGED otherModules

\* if (!artist || !title) return res.status(400)
HandlerBadRequest(r) ==
  /\ CanStart(r)
  /\ \E artist \in QueryArtists, title \in QueryTitles :
       /\ Falsy(artist) \/ Falsy(title)
       /\ req' = [req EXCEPT ![r] = [IdleReq EXCEPT !.pc = "done", !.method = "GET",
                                       !.artist = artist, !.title = title,
                                       !.res = [status |-> 400]]]
  /\ started' = started + 1
  /\ UNCHANGED << memoryCache, kv, now, concurrent, lastOp, resolved >>
  /\ UNCHANGED otherModules

\* getCacheKey throws a TypeError on a parameter that is no string; it is
\* called outside fetchSongInfo's try, so handler's catch answers 500
HandlerTypeError(r) ==
  /\ CanStart(r)
  /\ \E artist \in QueryArtists, title \in QueryTitles :
       /\ ~Falsy(artist) /\ ~Falsy(title)
       /\ artist = ArrayParam \/ title = ArrayParam
       /\ req' = [req EXCEPT ![r] = [IdleReq EXCEPT !.pc = "done", !.method = "GET",
                                       !.artist = artist, !.title = title,
                                       !.res = HandlerErrorRes]]
  /\ started' = started + 1
  /\ UNCHANGED << memoryCache, kv, now, concurrent, lastOp, resolved >>
  /\ UNCHANGED otherModules

\* a GET with both parameters: fetchSongInfo is called
ValidQuery(artist, title) ==
  /\ ~Falsy(artist) /\ ~Falsy(title)
  /\ artist # ArrayParam /\ title # ArrayParam

\* the invocation as fetchSongInfo enters getCache
Entered(artist, title) ==
  [IdleReq EXCEPT !.method = "GET", !.artist = artist, !.title = title,
                  !.cacheKey = getCacheKey(artist, title),
                  !.startedAt = now,
                  !.priorAt = IF resolved.key = getCacheKey(artist, title)
                             THEN resolved.at ELSE Never,
                  !.priorMem = IF MapHas(memoryCache, getCacheKey(artist, title))
                               THEN [present |-> TRUE,
                                     timestamp |-> MapGet(memoryCache,
                                                     getCacheKey(artist, title)).timestamp]
                               ELSE NoMem,
                  !.priorKv = kv[getCacheKey(artist, title)],
                  !.priorOp = IF lastOp.op = "set" THEN lastOp ELSE NoOp]

\* getCache: the memory entry is there and not expired; fetchSongInfo
\* returns it and the handler answers
HandlerMemoryHit(r) ==
  /\ CanStart(r)
  /\ \E artist \in QueryArtists, title \in QueryTitles :
       LET k == getCacheKey(artist, title)
           result == CacheHitResult(MapGet(memoryCache, k).data, "memory")
       IN /\ ValidQuery(artist, title)
          /\ MemoryHit(memoryCache, k, now)
          /\ req' = [req EXCEPT ![r] =
                       [Entered(artist, title) EXCEPT !.pc = "done",
                          !.ops = << "memory-hit" >>, !.res = HandlerJson(result)]]
          /\ lastOp' = NoOp
          /\ resolved' = [key |-> k, at |-> now]
  /\ started' = started + 1
  /\ UNCHANGED << memoryCache, kv, now, concurrent >>
  /\ UNCHANGED otherModules

\* getCache: no memory entry, or an expired one, which is deleted; then
\* await kv.get(key)
HandlerMemoryMiss(r) ==
  /\ CanStart(r)
  /\ \E artist \in QueryArtists, title \in QueryTitles :
       LET k == getCacheKey(artist, title)
       IN /\ ValidQuery(artist, title)
          /\ ~MemoryHit(memoryCache, k, now)
          /\ memoryCache' = MemoryAfterMiss(memoryCache, k)
          /\ req' = [req EXCEPT ![r] =
                       [Entered(artist, title) EXCEPT !.pc = "kvget",
                          !.ops = IF MapHas(memoryCache, k)
                                  THEN << "memory-expired" >> ELSE << "memory-miss" >>]]
          /\ lastOp' = NoOp
  /\ started' = started + 1
  /\ UNCHANGED << kv, now, concurrent, resolved >>
  /\ UNCHANGED otherModules

\* ------------------------------------------------- getCache: await kv.get
\* kv.get answers a value: it is promoted and returned
KvGetHit(r) ==
  LET k == req[r].cacheKey
      kvData == kv[k].data
  IN /\ req[r].pc = "kvget"
     /\ KvLive(kv, k, now)
     /\ memoryCache' = Promote(memoryCache, k, kvData, now)
     /\ req' = [req EXCEPT ![r].pc = "done",
                           ![r].ops = Append(@, "kv-hit"),
                           ![r].kvReadAt = now,
                           ![r].res = HandlerJson(CacheHitResult(kvData, "kv"))]
     /\ lastOp' = NoOp
     /\ NoteResolved(r)
     /\ UNCHANGED << kv, now, started, concurrent >>
     /\ UNCHANGED otherModules

\* the scrape begins: the direct URL is requested
BeginScrape(r, op) ==
  req' = [req EXCEPT ![r].pc = "direct", ![r].ops = Append(@, op),
                     ![r].kvReadAt = now, ![r].scraped = TRUE]

\* kv.get answers null: getCache returns null
KvGetMiss(r) ==
  /\ req[r].pc = "kvget"
  /\ ~KvLive(kv, req[r].cacheKey, now)
  /\ BeginScrape(r, "kv-miss")
  /\ lastOp' = NoOp
  /\ UNCHANGED << memoryCache, kv, now, started, concurrent, resolved >>
  /\ UNCHANGED otherModules

\* kv.get throws: the catch logs it and getCache returns null
KvGetError(r) ==
  /\ req[r].pc = "kvget"
  /\ IF KvReadCatch = "swallow"
     THEN /\ BeginScrape(r, "kv-read-error")
          /\ UNCHANGED resolved
     ELSE /\ req' = [req EXCEPT ![r].pc = "done", ![r].ops = Append(@, "kv-read-error"),
                                ![r].res = HandlerErrorRes]
          /\ NoteResolved(r)
  /\ lastOp' = NoOp
  /\ UNCHANGED << memoryCache, kv, now, started, concurrent >>
  /\ UNCHANGED otherModules

\* ------------------------------------------------------------ fetchSongInfo
\* fetchSongInfo falls to its last line: return { bpm: null, key: null, genre: null }
ReturnNull(r, fetch) ==
  /\ req' = [req EXCEPT ![r].pc = "done", ![r].fetches = Append(@, fetch),
                        ![r].res = HandlerJson(FreshResult(EmptyInfo))]
  /\ NoteResolved(r)
  /\ UNCHANGED << memoryCache, kv, now, started, concurrent, lastOp >>

\* mutant: the catch stores the all-null record in the memory cache
Caught_StoresNull(r, fetch) ==
  /\ memoryCache' = SetCacheMemory(memoryCache, req[r].cacheKey, EmptyInfo, now)
  /\ req' = [req EXCEPT ![r].pc = "done", ![r].fetches = Append(@, fetch),
                        ![r].res = HandlerJson(FreshResult(EmptyInfo))]
  /\ NoteResolved(r)
  /\ UNCHANGED << kv, now, started, concurrent, lastOp >>

\* an axios.get inside the try throws: the catch decides
Caught(r, fetch) ==
  IF ScrapeCatch = "swallow"
  THEN ReturnNull(r, fetch)
  ELSE /\ req' = [req EXCEPT ![r].pc = "done", ![r].fetches = Append(@, fetch),
                             ![r].res = HandlerErrorRes]
       /\ NoteResolved(r)
       /\ UNCHANGED << memoryCache, kv, now, started, concurrent, lastOp >>

\* await setCache(cacheKey, info), up to its await kv.set
BeginSetCache(r, fetch, info) ==
  /\ memoryCache' = SetCacheMemory(memoryCache, req[r].cacheKey, info, now)
  /\ req' = [req EXCEPT ![r].pc = "kvset", ![r].fetches = Append(@, fetch),
                        ![r].ops = Append(@, "memory-set"),
                        ![r].info = info, ![r].didSet = TRUE]
  /\ lastOp' = [op |-> "setting", r |-> r, key |-> req[r].cacheKey, data |-> info,
                time |-> now, full |-> Len(memoryCache) >= MAX_MEMORY_CACHE_SIZE]
  /\ UNCHANGED << kv, now, started, concurrent, resolved >>

\* one axios.get and its answer; songUrl: the scan of the artist page found
\* a link to the song
Fetch(r, kind, status, songUrl) ==
  [kind |-> kind, status |-> status, songUrl |-> songUrl,
   url |-> CASE kind = "direct" -> DirectUrl(req[r].artist, req[r].title)
             [] kind = "artist" -> ArtistUrl(req[r].artist)
             [] kind = "song" -> req[r].songUrl[1]]

\* the direct URL: no answer, or a status >= 500
DirectFails(r) ==
  /\ req[r].pc = "direct"
  /\ \E status \in DirectStatuses :
       /\ DirectThrows(status)
       /\ Caught(r, Fetch(r, "direct", status, FALSE))
  /\ UNCHANGED otherModules

\* the direct URL: status 200 and a page with a bpm
DirectSuccess(r) ==
  /\ req[r].pc = "direct"
  /\ \E html \in Pages :
       /\ ~DirectThrows(200)
       /\ ShouldCache(extractSongInfo(html))
       /\ BeginSetCache(r, Fetch(r, "direct", 200, FALSE), extractSongInfo(html))
  /\ UNCHANGED otherModules

\* the direct URL: another status below 500, or a page without bpm; the
\* artist page is requested
DirectNoBpm(r) ==
  /\ req[r].pc = "direct"
  /\ \E status \in DirectStatuses :
       /\ ~DirectThrows(status)
       /\ status = 200 => \E html \in Pages : ~ShouldCache(extractSongInfo(html))
       /\ req' = [req EXCEPT ![r].pc = "artist",
                             ![r].fetches = Append(@, Fetch(r, "direct", status, FALSE))]
  /\ UNCHANGED << memoryCache, kv, now, started, concurrent, lastOp, resolved >>
  /\ UNCHANGED otherModules

\* the artist page, as what the scan of its links leaves in songUrl
ArtistPages == { "no-song-link", "song-link" }

\* the artist page: no answer, or a status that is not 2xx
ArtistFails(r) ==
  /\ req[r].pc = "artist"
  /\ \E status \in ArtistStatuses :
       /\ DefaultThrows(status)
       /\ Caught(r, Fetch(r, "artist", status, FALSE))
  /\ UNCHANGED otherModules

\* the artist page: a 2xx that is not 200, or no link to the song on it
ArtistNoSong(r) ==
  /\ req[r].pc = "artist"
  /\ \E status \in ArtistStatuses, page \in ArtistPages :
       /\ ~DefaultThrows(status)
       /\ status # 200 \/ page = "no-song-link"
       /\ ReturnNull(r, Fetch(r, "artist", status, FALSE))
  /\ UNCHANGED otherModules

\* the artist page: status 200 and a link to the song; it is requested:
\* songUrl = `https://songbpm.com${href}`
ArtistSongLink(r) ==
  /\ req[r].pc = "artist"
  /\ ~DefaultThrows(200)
  /\ "song-link" \in ArtistPages
  /\ \E link \in ArtistLinks(normalizeForUrl(req[r].artist), normalizeForUrl(req[r].title)) :
       /\ LinkMatches(link, normalizeForUrl(req[r].artist), normalizeForUrl(req[r].title))
       /\ req' = [req EXCEPT ![r].pc = "song",
                             ![r].songUrl = Some(SongBpm \o link.href),
                             ![r].fetches = Append(@, Fetch(r, "artist", 200, TRUE))]
  /\ UNCHANGED << memoryCache, kv, now, started, concurrent, lastOp, resolved >>
  /\ UNCHANGED otherModules

\* the song page: no answer, or a status that is not 2xx
SongFails(r) ==
  /\ req[r].pc = "song"
  /\ \E status \in SongStatuses :
       /\ DefaultThrows(status)
       /\ Caught(r, Fetch(r, "song", status, FALSE))
  /\ UNCHANGED otherModules

\* the song page: a page with a bpm
SongSuccess(r) ==
  /\ req[r].pc = "song"
  /\ \E status \in SongStatuses, html \in Pages :
       /\ ~DefaultThrows(status)
       /\ ShouldCache(extractSongInfo(html))
       /\ BeginSetCache(r, Fetch(r, "song", status, FALSE), extractSongInfo(html))
  /\ UNCHANGED otherModules

\* the song page: a page without bpm
SongNoBpm(r) ==
  /\ req[r].pc = "song"
  /\ \E status \in SongStatuses, html \in Pages :
       /\ ~DefaultThrows(status)
       /\ ~ShouldCache(extractSongInfo(html))
       /\ ReturnNull(r, Fetch(r, "song", status, FALSE))
  /\ UNCHANGED otherModules

\* ------------------------------------------------- setCache: await kv.set
\* setCache has returned; fetchSongInfo returns info and the handler answers
SetCacheReturns(r, kvOk) ==
  /\ req' = [req EXCEPT ![r].pc = "done",
                        ![r].ops = Append(@, IF kvOk THEN "kv-set" ELSE "kv-write-error"),
                        ![r].res = HandlerJson(FreshResult(req[r].info))]
  /\ lastOp' = IF lastOp.op = "setting" /\ lastOp.r = r
               THEN [op |-> "set", key |-> lastOp.key, data |-> lastOp.data,
                     time |-> lastOp.time, full |-> lastOp.full, kvOk |-> kvOk]
               ELSE NoOp
  /\ NoteResolved(r)

\* kv.set stores the value for CACHE_TTL_SECONDS
KvSetOk(r) ==
  /\ req[r].pc = "kvset"
  /\ kv' = [kv EXCEPT ![req[r].cacheKey] = KvSetEntry(req[r].info, now)]
  /\ SetCacheReturns(r, TRUE)
  /\ UNCHANGED << memoryCache, now, started, concurrent >>
  /\ UNCHANGED otherModules

\* kv.set throws: the catch logs it
KvSetError(r) ==
  /\ req[r].pc = "kvset"
  /\ IF KvWriteCatch = "swallow"
     THEN SetCacheReturns(r, FALSE)
     ELSE /\ req' = [req EXCEPT ![r].pc = "done", ![r].ops = Append(@, "kv-write-error"),
                                ![r].res = HandlerErrorRes]
          /\ lastOp' = NoOp
          /\ NoteResolved(r)
  /\ UNCHANGED << memoryCache, kv, now, started, concurrent >>
  /\ UNCHANGED otherModules

\* ------------------------------------------------------------ environment
\* how far the clock is followed: overlapping invocations are followed over
\* fewer ticks
TimeLimit == IF concurrent THEN ConcurrentTicks * TickMs ELSE MaxNow

\* the response has been sent; the slot is free for another invocation
Finish(r) ==
  /\ req[r].pc = "done"
  /\ req' = [req EXCEPT ![r] = IdleReq]
  /\ UNCHANGED << memoryCache, kv, now, started, concurrent, lastOp, resolved >>
  /\ UNCHANGED otherModules

\* time passes, a tick at a time.  Every axios.get has timeout: 10000, far
\* below a tick, so no tick falls into a fetch; kv.get and kv.set have no
\* timeout.  An answered invocation has ended.
Tick ==
  /\ now < TimeLimit
  /\ \A r \in Reqs : req[r].pc \in { "idle", "kvget", "kvset" }
  /\ \A s \in Searches : search[s].pc # "done"
  /\ now' = now + TickMs
  /\ UNCHANGED << memoryCache, kv, req, started, concurrent, lastOp, resolved >>
  /\ UNCHANGED otherModules

Next ==
  \/ \E r \in Reqs :
       \/ HandlerOptions(r)
       \/ HandlerMethodNotAllowed(r)
       \/ HandlerBadRequest(r)
       \/ HandlerTypeError(r)
       \/ HandlerMemoryHit(r)
       \/ HandlerMemoryMiss(r)
       \/ KvGetHit(r)
       \/ KvGetMiss(r)
       \/ KvGetError(r)
       \/ DirectFails(r)
       \/ DirectSuccess(r)
       \/ DirectNoBpm(r)
       \/ ArtistFails(r)
       \/ ArtistNoSong(r)
       \/ ArtistSongLink(r)
       \/ SongFails(r)
       \/ SongSuccess(r)
       \/ SongNoBpm(r)
       \/ KvSetOk(r)
       \/ KvSetError(r)
       \/ Finish(r)
  \/ Tick

Spec == Init /\ [][Next]_vars

\* invocations of the handler overlap: while one awaits the KV store or the
\* provider, the event loop runs another one on the same instance
\* on an instance whose Map is full
ConcurrentInit ==
  /\ InitCacheWith({ MAX_MEMORY_CACHE_SIZE }) /\ concurrent = TRUE
  /\ slug = NoSlug /\ selection = NoSelection /\ keyed = NoKeyed
  /\ credentials = TRUE /\ InitSearch /\ app = InitApp

ConcurrentSpec == ConcurrentInit /\ [][Next]_vars

\* ====================================================== the slug normalizers
SlugAlphabet == { "f", "t", "A", " ", "-", "(", ")", "!" }
SlugTexts == UNION { [1..n -> SlugAlphabet] : n \in 0..MaxSlugLen }

\* the normalizer named fn, applied to text
Normalize(fn, text) ==
  IF fn = "normalizeForUrl" THEN normalizeForUrl(text) ELSE createSlug(text)

\* a text reaches normalizeForUrl (fetchSongInfo: artistSlug, titleSlug)
NormalizeForUrl ==
  /\ slug.step = 0
  /\ slug' = [slug EXCEPT !.step = 1, !.fn = "normalizeForUrl",
                          !.out = normalizeForUrl(slug.text)]
  /\ UNCHANGED << songInfoVars, now, selection, keyed, searchVars, app >>

\* a text reaches createSlug (findSongBPMUrl: artistSlug, songSlug)
CreateSlug ==
  /\ slug.step = 0
  /\ slug' = [slug EXCEPT !.step = 1, !.fn = "createSlug",
                          !.out = createSlug(slug.text)]
  /\ UNCHANGED << songInfoVars, now, selection, keyed, searchVars, app >>

\* the slug is given to the same normalizer
NormalizeAgain ==
  /\ slug.step = 1
  /\ slug' = [slug EXCEPT !.step = 2, !.again = Normalize(slug.fn, slug.out)]
  /\ UNCHANGED << songInfoVars, now, selection, keyed, searchVars, app >>

SlugInit ==
  /\ InitCache /\ memoryCache = << >> /\ concurrent = FALSE
  /\ credentials = TRUE /\ InitSearch /\ app = InitApp
  /\ selection = NoSelection /\ keyed = NoKeyed
  /\ \E text \in SlugTexts : slug = [NoSlug EXCEPT !.text = text]

SlugNext == NormalizeForUrl \/ CreateSlug \/ NormalizeAgain

SlugSpec == SlugInit /\ [][SlugNext]_vars

\* ======================================================== the catalog search
\* --------------------------------------------------------------- the inputs
\* the tracks the catalog may answer with
TrackAb == [id |-> "Ab", name |-> << "A", "b" >>, artist |-> << "q" >>, popularity |-> 5]
TrackCa == [id |-> "Ca", name |-> << "C", "a" >>, artist |-> << "q" >>, popularity |-> 5]
TrackAbCa ==
  [id |-> "AbCa", name |-> << "A", "b", " ", "C", "a" >>, artist |-> << "C", "a" >>,
   popularity |-> 50]
TrackHit ==
  [id |-> "Hit", name |-> << "z", "z", "z", " ", "q", "q", "q", " ", "w", "w", "w" >>,
   artist |-> << "q" >>, popularity |-> 85]
TrackZq ==
  [id |-> "Zq", name |-> << "z", "z", "z", " ", "q", "q", "q" >>, artist |-> << "q" >>,
   popularity |-> 0]
TrackZ == [id |-> "Z", name |-> << "z", "z", "z" >>, artist |-> << "q" >>, popularity |-> 0]
Catalogue == { TrackAb, TrackCa, TrackAbCa, TrackHit, TrackZq, TrackZ }

\* data.tracks.items: up to MaxTracks tracks (of the limit=10 asked for)
TrackLists == UNION { [1..n -> Catalogue] : n \in 1..MaxTracks }

\* the answers of the catalog to the searches of SearchSpec
SampleAnswers ==
  { << TrackAb, TrackHit >>, << TrackZq, TrackZ >>, << TrackCa, TrackAbCa, TrackAb >> }

\* req.query.query
QueryAbCa == << " ", "A", "b", " ", " ", "C", "a" >>
QueryParsed == << "a", " ", "-", " ", "b" >>
Queries == { Undefined, << " " >>, QueryAbCa, QueryParsed }

\* data.expires_in of the token response, in seconds; Null: the field is missing
ExpiresIns == { Null, Some(0), Some(960), Some(1860) }

\* ------------------------------------------------------------ parseSongQuery
\* .replace(/\s+/g, ' ')
RECURSIVE CollapseSpaces(_)
CollapseSpaces(s) ==
  IF s = << >> THEN << >>
  ELSE IF IsSpace(Head(s)) THEN << " " >> \o CollapseSpaces(TrimStart(Tail(s)))
  ELSE << Head(s) >> \o CollapseSpaces(Tail(s))

\* .replace(/(\d)([a-z])/g, '$1 $2') if digitFirst,
\* .replace(/([a-z])(\d)/g, '$1 $2') if not
RECURSIVE SpaceBetween(_, _)
SpaceBetween(s, digitFirst) ==
  IF Len(s) < 2 THEN s
  ELSE IF \/ digitFirst /\ IsDigit(s[1]) /\ IsLower(s[2])
          \/ ~digitFirst /\ IsLower(s[1]) /\ IsDigit(s[2])
       THEN << s[1], " " >> \o SpaceBetween(Tail(s), digitFirst)
       ELSE << s[1] >> \o SpaceBetween(Tail(s), digitFirst)

\* parseSongQuery's cleanQuery
CleanQuery(query) ==
  SpaceBetween(SpaceBetween(Trim(CollapseSpaces(ToLowerCase(query))), TRUE), FALSE)

\* cleanQuery.includes(' - ') or cleanQuery.includes(' by ')
HasSeparator(cleanQuery) ==
  \/ Includes(cleanQuery, << " ", "-", " " >>)
  \/ Includes(cleanQuery, << " ", "b", "y", " " >>)

\* ----------------------------------------------------------------- the token
DefaultExpiresIn == 3600

\* Number(data.expires_in ?? 3600) * 1000 in spotifyAuth.js,
\* (response.data.expires_in || 3600) * 1000 in api/search.js
ExpiresInMs(impl, expires_in) ==
  IF expires_in = Null THEN DefaultExpiresIn * 1000
  ELSE IF impl = "api" /\ expires_in[1] = 0 THEN DefaultExpiresIn * 1000
  ELSE expires_in[1] * 1000

\* tokenExpiresAt = Date.now() + expiresInMs - 60000
RefreshAheadMs == 60000

\* if (!force && cachedToken && now < tokenExpiresAt); api/search.js has no force
TokenValid(impl, force) ==
  ~force /\ cachedToken[impl] # Null /\ now < tokenExpiresAt[impl]

\* --------------------------------------------------------------- the answers
NotFoundRes == [status |-> 200, source |-> "not-found", trackId |-> ""]
ParsedRes == [status |-> 200, source |-> "user-input-parsing", trackId |-> "parsed"]
FoundRes(result) == [status |-> 200, source |-> result.source, trackId |-> result.trackId]
BadRequestRes == [status |-> 400, source |-> "", trackId |-> ""]
ErrorRes == [status |-> 500, source |-> "", trackId |-> ""]

\* mutant: the catch of the search function throws the error on
SearchCatch_Rethrow == "rethrow"

\* catch (error) { console.error(...); return null } of searchSpotifyAPI and
\* of searchSpotify
SearchCatch == "swallow"

\* catch (error) { console.error(...) } of parseSongQuery, around its call of
\* searchSpotifyAPI
ParseQueryCatch == "swallow"

\* ---------------------------------------------------------------- the entry
CanSearch(s) ==
  /\ search[s].pc = "idle"
  /\ searches < MaxSearches
  /\ IF concurrent
     THEN \A o \in 1..(s - 1) : search[o].pc # "idle"
     ELSE s = 1 /\ \A o \in Searches : search[o].pc = "idle"

\* const query = req.query.query?.trim()
BackendQuery(query) == IF query = Undefined THEN Undefined ELSE Trim(query)

\* the query the handler of impl goes on with
HandlerQuery(impl, query) == IF impl = "backend" THEN BackendQuery(query) ELSE query

\* the text given to the catalog
CatalogQuery(impl, query) ==
  IF impl = "backend" THEN CleanQuery(BackendQuery(query)) ELSE query

\* api/search.js: if (req.method === 'OPTIONS') return res.status(200).end()
ApiOptions(s) ==
  /\ CanSearch(s)
  /\ search' = [search EXCEPT ![s] =
                  [IdleSearch EXCEPT !.pc = "done", !.impl = "api", !.method = "OPTIONS",
                                     !.res = [status |-> 200, source |-> "", trackId |-> ""]]]
  /\ searches' = searches + 1
  /\ UNCHANGED << songInfoVars, now, pureVars, app, credentials, cachedToken, tokenExpiresAt,
                  acquired, failed >>

\* api/search.js: if (req.method !== 'GET') return res.status(405)
ApiMethodNotAllowed(s) ==
  /\ CanSearch(s)
  /\ search' = [search EXCEPT ![s] =
                  [IdleSearch EXCEPT !.pc = "done", !.impl = "api", !.method = "POST",
                                     !.res = [status |-> 405, source |-> "", trackId |-> ""]]]
  /\ searches' = searches + 1
  /\ UNCHANGED << songInfoVars, now, pureVars, app, credentials, cachedToken, tokenExpiresAt,
                  acquired, failed >>

\* if (!query) return res.status(400)
SearchBadRequest(s) ==
  /\ CanSearch(s)
  /\ \E impl \in Impls, query \in Queries :
       /\ Falsy(HandlerQuery(impl, query))
       /\ search' = [search EXCEPT ![s] =
                       [IdleSearch EXCEPT !.pc = "done", !.impl = impl, !.method = "GET",
                                          !.query = query, !.res = BadRequestRes]]
  /\ searches' = searches + 1
  /\ UNCHANGED << songInfoVars, now, pureVars, app, credentials, cachedToken, tokenExpiresAt,
                  acquired, failed >>

\* parseSongQuery: the query names title and artist with ' - ' or ' by '
SearchParsed(s) ==
  /\ CanSearch(s)
  /\ \E query \in Queries :
       /\ ~Falsy(BackendQuery(query))
       /\ HasSeparator(CleanQuery(BackendQuery(query)))
       /\ search' = [search EXCEPT ![s] =
                       [IdleSearch EXCEPT !.pc = "done", !.impl = "backend",
                                          !.method = "GET", !.query = query,
                                          !.cleanQuery = CleanQuery(BackendQuery(query)),
                                          !.res = ParsedRes]]
  /\ searches' = searches + 1
  /\ UNCHANGED << songInfoVars, now, pureVars, app, credentials, cachedToken, tokenExpiresAt,
                  acquired, failed >>

\* the handler of impl calls its search function with this query
CallsSearch(impl, query) ==
  /\ ~Falsy(HandlerQuery(impl, query))
  /\ impl = "backend" => ~HasSeparator(CleanQuery(BackendQuery(query)))

\* the search as its search function calls the token function
SearchEntered(impl, query) ==
  [IdleSearch EXCEPT !.impl = impl, !.method = "GET", !.query = query,
                     !.cleanQuery = CatalogQuery(impl, query),
                     !.tokenAt = now,
                     !.priorToken = cachedToken[impl],
                     !.priorAcquired = acquired[impl]]

\* ------------------------------------------------------- the token function
\* the cached token is valid: the token function returns it and the search
\* function requests the catalog
SearchTokenCached(s) ==
  /\ CanSearch(s)
  /\ \E impl \in Impls, query \in Queries :
       /\ CallsSearch(impl, query)
       /\ TokenValid(impl, FALSE)
       /\ search' = [search EXCEPT ![s] =
                       [SearchEntered(impl, query) EXCEPT
                          !.pc = "search", !.token = cachedToken[impl],
                          !.tokenFrom = "cache"]]
  /\ searches' = searches + 1
  /\ UNCHANGED << songInfoVars, now, pureVars, app, credentials, cachedToken, tokenExpiresAt,
                  acquired, failed >>

\* the handler's answer when its search function has returned null
ReturnedNull(s, entered, failure) ==
  search' = [search EXCEPT ![s] =
               [entered EXCEPT !.pc = "done", !.failure = failure,
                               !.returned = "null", !.res = NotFoundRes]]

\* an error reaches the catch of the search function
SearchCaught(s, entered, failure) ==
  IF SearchCatch = "swallow" \/ (entered.impl = "backend" /\ ParseQueryCatch = "swallow")
  THEN ReturnedNull(s, entered, failure)
  ELSE search' = [search EXCEPT ![s] =
                    [entered EXCEPT !.pc = "done", !.failure = failure,
                                    !.returned = "error", !.res = ErrorRes]]

\* no valid token and no credentials: throw new Error('Spotify credentials
\* not configured')
SearchNoCredentials(s) ==
  /\ CanSearch(s)
  /\ ~credentials
  /\ \E impl \in Impls, query \in Queries :
       /\ CallsSearch(impl, query)
       /\ ~TokenValid(impl, FALSE)
       /\ SearchCaught(s, SearchEntered(impl, query), "credentials")
  /\ searches' = searches + 1
  /\ UNCHANGED << songInfoVars, now, pureVars, app, credentials, cachedToken, tokenExpiresAt,
                  acquired, failed >>

\* no valid token: the exchange is requested
SearchTokenRequest(s) ==
  /\ CanSearch(s)
  /\ credentials
  /\ \E impl \in Impls, query \in Queries :
       /\ CallsSearch(impl, query)
       /\ ~TokenValid(impl, FALSE)
       /\ search' = [search EXCEPT ![s] =
                       [SearchEntered(impl, query) EXCEPT !.pc = "token"]]
  /\ searches' = searches + 1
  /\ UNCHANGED << songInfoVars, now, pureVars, app, credentials, cachedToken, tokenExpiresAt,
                  acquired, failed >>

\* mutant: an expiry already cached is kept when it is the later one
NewExpiry_KeepLater(impl, expires_in, t) ==
  IF tokenExpiresAt[impl] > t + ExpiresInMs(impl, expires_in) - RefreshAheadMs
  THEN tokenExpiresAt[impl]
  ELSE t + ExpiresInMs(impl, expires_in) - RefreshAheadMs

\* tokenExpiresAt = Date.now() + expiresInMs - 60000
NewExpiry(impl, expires_in, t) == t + ExpiresInMs(impl, expires_in) - RefreshAheadMs

\* the token response: the token and its expiry are cached, the catalog is
\* requested.  The access_token is named by the response that carried it.
TokenOk(s) ==
  /\ search[s].pc = "token"
  /\ \E expires_in \in ExpiresIns :
       LET impl == search[s].impl
           access_token == Some(<< s, searches >>)
       IN /\ cachedToken' = [cachedToken EXCEPT ![impl] = access_token]
          /\ tokenExpiresAt' =
               [tokenExpiresAt EXCEPT ![impl] = NewExpiry(impl, expires_in, now)]
          /\ acquired' = [acquired EXCEPT
                            ![impl] = [done |-> TRUE, at |-> now,
                                       expires_in |-> expires_in,
                                       token |-> access_token]]
          /\ search' = [search EXCEPT ![s].pc = "search", ![s].token = access_token,
                                      ![s].tokenFrom = "exchange"]
  /\ UNCHANGED << songInfoVars, now, pureVars, app, credentials, searches, failed >>

TokenFailures == { "token-network", "token-status" }

\* mutant: the catch of the token function logs the error and returns
TokenCatch_Swallow == "swallow"

\* the catch of the token function: throw err
TokenCatch == "rethrow"

\* the exchange fails: no response, or a response that is not ok; the token
\* function throws before it assigns anything
TokenFails(s) ==
  /\ search[s].pc = "token"
  /\ \E failure \in TokenFailures :
       IF TokenCatch = "rethrow"
       THEN SearchCaught(s, search[s], failure)
       ELSE search' = [search EXCEPT ![s].pc = "search", ![s].failure = failure,
                                     ![s].tokenFrom = "exchange"]
  /\ failed' = [failed EXCEPT ![search[s].impl] = @ + 1]
  /\ UNCHANGED << songInfoVars, now, pureVars, app, credentials, cachedToken, tokenExpiresAt,
                  searches, acquired >>

\* ------------------------------------------------------ the catalog request
CatalogFailures == { "search-network", "search-status" }

\* the catalog request fails: no response, or a status that is not ok (401
\* for a token the catalog does not accept)
CatalogFails(s) ==
  /\ search[s].pc = "search"
  /\ \E failure \in CatalogFailures : SearchCaught(s, search[s], failure)
  /\ UNCHANGED << songInfoVars, now, pureVars, app, credentials, cachedToken, tokenExpiresAt,
                  searches, acquired, failed >>

\* the catalog answers with no track: the search function returns null
CatalogEmpty(s) ==
  /\ search[s].pc = "search"
  /\ ReturnedNull(s, search[s], "")
  /\ UNCHANGED << songInfoVars, now, pureVars, app, credentials, cachedToken, tokenExpiresAt,
                  searches, acquired, failed >>

\* the catalog answers with tracks: one of them is returned
CatalogAnswers(s) ==
  /\ search[s].pc = "search"
  /\ \E tracks \in SampleAnswers :
       LET result == IF search[s].impl = "backend"
                     THEN SelectTrack(tracks, search[s].cleanQuery)
                     ELSE FirstTrack(tracks)
       IN search' = [search EXCEPT ![s].pc = "done", ![s].tracks = tracks,
                                   ![s].returned = "track",
                                   ![s].result = Some(result),
                                   ![s].res = FoundRes(result)]
  /\ UNCHANGED << songInfoVars, now, pureVars, app, credentials, cachedToken, tokenExpiresAt,
                  searches, acquired, failed >>

\* the response has been sent
SearchFinish(s) ==
  /\ search[s].pc = "done"
  /\ search' = [search EXCEPT ![s] = IdleSearch]
  /\ UNCHANGED << songInfoVars, now, pureVars, app, credentials, cachedToken, tokenExpiresAt,
                  searches, acquired, failed >>

\* the process starts with or without the credentials in its environment
SearchInit ==
  /\ InitCache /\ memoryCache = << >> /\ concurrent = FALSE
  /\ slug = NoSlug /\ selection = NoSelection /\ keyed = NoKeyed
  /\ credentials \in BOOLEAN
  /\ InitSearch /\ app = InitApp

SearchNext ==
  \/ \E s \in Searches :
       \/ ApiOptions(s)
       \/ ApiMethodNotAllowed(s)
       \/ SearchBadRequest(s)
       \/ SearchParsed(s)
       \/ SearchTokenCached(s)
       \/ SearchNoCredentials(s)
       \/ SearchTokenRequest(s)
       \/ TokenOk(s)
       \/ TokenFails(s)
       \/ CatalogFails(s)
       \/ CatalogEmpty(s)
       \/ CatalogAnswers(s)
       \/ SearchFinish(s)
  \/ Tick

SearchSpec == SearchInit /\ [][SearchNext]_vars

\* search requests overlap: while one awaits the token exchange or the
\* catalog, the event loop runs another one
ConcurrentSearchInit ==
  /\ InitCache /\ memoryCache = << >> /\ concurrent = TRUE
  /\ slug = NoSlug /\ selection = NoSelection /\ keyed = NoKeyed
  /\ credentials \in BOOLEAN
  /\ InitSearch /\ app = InitApp

ConcurrentSearchSpec == ConcurrentSearchInit /\ [][SearchNext]_vars

\* ============================================== searchSpotifyAPI: the choice
ScoredQueries == { CleanQuery(QueryAbCa), << "a", "b" >> }

\* the scoring loop and the low-confidence override, on the tracks of a
\* catalog answer
Select ==
  /\ selection.step = 0
  /\ selection' = [selection EXCEPT
                     !.step = 1,
                     !.result = Some(SelectTrack(selection.tracks, selection.query))]
  /\ UNCHANGED << songInfoVars, now, slug, keyed, searchVars, app >>

ScoringInit ==
  /\ InitCache /\ memoryCache = << >> /\ concurrent = FALSE
  /\ slug = NoSlug /\ keyed = NoKeyed
  /\ credentials = TRUE /\ InitSearch /\ app = InitApp
  /\ \E query \in ScoredQueries, tracks \in TrackLists :
       selection = [NoSelection EXCEPT !.query = query, !.tracks = tracks]

ScoringNext == Select

ScoringSpec == ScoringInit /\ [][ScoringNext]_vars

\* ------------------------------------------------- getCacheKey on two pairs
KeyAlphabet == { "a", "A", ":" }
KeyTexts == UNION { [1..n -> KeyAlphabet] : n \in 1..MaxKeyLen }

\* fetchSongInfo computes the key of each of two queries
GetCacheKeys ==
  /\ keyed.step = 0
  /\ keyed' = [keyed EXCEPT
                 !.step = 1,
                 !.keys = << getCacheKey(keyed.first.artist, keyed.first.title),
                             getCacheKey(keyed.second.artist, keyed.second.title) >>]
  /\ UNCHANGED << songInfoVars, now, slug, selection, searchVars, app >>

KeyInit ==
  /\ InitCache /\ memoryCache = << >> /\ concurrent = FALSE
  /\ slug = NoSlug /\ selection = NoSelection
  /\ credentials = TRUE /\ InitSearch /\ app = InitApp
  /\ \E a1, t1, a2, t2 \in KeyTexts :
       keyed = [NoKeyed EXCEPT !.first = [artist |-> a1, title |-> t1],
                               !.second = [artist |-> a2, title |-> t2]]

KeyNext == GetCacheKeys

KeySpec == KeyInit /\ [][KeyNext]_vars

\* --------------------------------------------------------- the frontend App
\* what the search field hands to handleSubmitQuery
SubmittedTexts == { << >>, << " " >>, << "a" >> }

\* results[0] of /api/search: a track with all its fields, or one without
\* spotifyUrl
TrackOne ==
  [title |-> << "t", "1" >>, artist |-> << "a", "1" >>, trackId |-> << "i", "1" >>,
   spotifyUrl |-> Some(<< "u", "1" >>)]
TrackTwo ==
  [title |-> << "t", "2" >>, artist |-> << "a", "2" >>, trackId |-> << "i", "2" >>,
   spotifyUrl |-> Null]
FirstTracks == { TrackOne, TrackTwo }

\* the JSON of /api/features: tempo, key, genre, each possibly missing
Tempos == { Null, Some(0), Some(120) }
FeatureKeys == { Null, Some(<< "C" >>) }
FeatureGenres == { Null, Some(<< "P", "o", "p" >>) }
NoFeatures == [bpm |-> Null, key |-> Null, genre |-> Null]

\* fetchAudioFeatures on an ok response:
\* bpm: features.tempo && features.tempo > 0 ? features.tempo : null
FeaturesOf(tempo, key, genre) ==
  [bpm |-> IF tempo # Null /\ tempo[1] > 0 THEN tempo ELSE Null,
   key |-> key, genre |-> genre]

\* text.trim() is empty
Blank(text) == Trim(text) = << >>

\* if (!text.trim()) return
SubmitBlank ==
  /\ app.pc = "idle" /\ app.submits < MaxSubmits
  /\ \E text \in SubmittedTexts :
       /\ Blank(text)
       /\ app' = [app EXCEPT !.text = text, !.submits = @ + 1, !.path = "blank"]
  /\ UNCHANGED << songInfoVars, now, pureVars, searchVars >>

\* setIsLoading(true), setTransitionActive(true), await fetch(url)
Submit ==
  /\ app.pc = "idle" /\ app.submits < MaxSubmits
  /\ \E text \in SubmittedTexts :
       /\ ~Blank(text)
       /\ app' = [app EXCEPT !.pc = "search", !.text = text, !.submits = @ + 1,
                             !.isLoading = TRUE, !.transitionActive = TRUE,
                             !.path = ""]
  /\ UNCHANGED << songInfoVars, now, pureVars, searchVars >>

\* resp.ok and a non-empty array: the track is shown, and
\* await fetchAudioFeatures(...)
SearchMatch ==
  /\ app.pc = "search"
  /\ \E track \in FirstTracks :
       app' = [app EXCEPT !.pc = "features", !.track = Some(track),
                          !.trackTitle = track.title, !.trackArtist = track.artist,
                          !.trackId = track.trackId, !.spotifyUrl = track.spotifyUrl]
  /\ UNCHANGED << songInfoVars, now, pureVars, searchVars >>

\* fetchAudioFeatures returns: the features of an ok response, or the
\* all-null record after a failed request; finally setIsLoading(false)
FeaturesArrive ==
  /\ app.pc = "features"
  /\ \E features \in { FeaturesOf(tempo, key, genre) :
                         tempo \in Tempos, key \in FeatureKeys, genre \in FeatureGenres }
                     \cup { NoFeatures } :
       app' = [app EXCEPT !.pc = "idle", !.bpm = features.bpm, !.key = features.key,
                          !.genre = features.genre, !.isLoading = FALSE,
                          !.path = "match"]
  /\ UNCHANGED << songInfoVars, now, pureVars, searchVars >>

\* resp.ok and no track in the results (lines 512-519)
SearchEmpty ==
  /\ app.pc = "search"
  /\ app' = [app EXCEPT !.pc = "idle", !.trackTitle = app.text,
                        !.trackArtist = << "No exact match found" >>,
                        !.trackId = << >>,
                        !.bpm = Null, !.key = Null, !.genre = Null,
                        !.isLoading = FALSE, !.path = "empty"]
  /\ UNCHANGED << songInfoVars, now, pureVars, searchVars >>

\* a response that is not ok (lines 520-527)
SearchNotOk ==
  /\ app.pc = "search"
  /\ app' = [app EXCEPT !.pc = "idle", !.trackTitle = app.text,
                        !.trackArtist = << "Lookup error" >>,
                        !.trackId = << >>, !.bpm = Null,
                        !.isLoading = FALSE, !.path = "not-ok"]
  /\ UNCHANGED << songInfoVars, now, pureVars, searchVars >>

\* fetch rejects, or the body of the response cannot be read: the catch
\* (lines 528-533)
SearchThrows ==
  /\ app.pc = "search"
  /\ app' = [app EXCEPT !.pc = "idle", !.trackTitle = app.text,
                        !.trackArtist = << "Offline or backend unavailable" >>,
                        !.trackId = << >>, !.bpm = Null,
                        !.isLoading = FALSE, !.path = "error"]
  /\ UNCHANGED << songInfoVars, now, pureVars, searchVars >>

\* the transition animation has run its 2000 ms: setTransitionActive(false)
TransitionEnds ==
  /\ app.transitionActive
  /\ app' = [app EXCEPT !.transitionActive = FALSE]
  /\ UNCHANGED << songInfoVars, now, pureVars, searchVars >>

AppInit ==
  /\ InitCache /\ memoryCache = << >> /\ concurrent = FALSE
  /\ slug = NoSlug /\ selection = NoSelection /\ keyed = NoKeyed
  /\ credentials = TRUE /\ InitSearch
  /\ app = InitApp

AppNext ==
  \/ SubmitBlank
  \/ Submit
  \/ SearchMatch
  \/ FeaturesArrive
  \/ SearchEmpty
  \/ SearchNotOk
  \/ SearchThrows
  \/ TransitionEnds

AppSpec == AppInit /\ [][AppNext]_vars


\* ================================================================= claims
Last(q) == q[Len(q)]

\* slot r holds an invocation that has entered fetchSongInfo / has answered
Resolving(r) == req[r].ops # << >>
Answered(r) == req[r].pc = "done"
Data(x) == [bpm |-> x.bpm, key |-> x.key, genre |-> x.genre]

\* the getCache of slot r came right after a completed setCache of its key,
\* with less than the TTL elapsed since that set
RightAfterSet(r) ==
  /\ Resolving(r)
  /\ req[r].priorOp.op = "set"
  /\ req[r].priorOp.key = req[r].cacheKey
  /\ req[r].startedAt - req[r].priorOp.time < CACHE_TTL_MS

\* C1: a getCache(k) that comes right after setCache(k, v), with less than
\* the TTL elapsed, is a memory hit that returns v, whatever the occupancy of
\* the Map before the set and whether or not the KV write succeeded.
C1_ReadYourWrites ==
  \A r \in Reqs :
    RightAfterSet(r) =>
      /\ Answered(r)
      /\ req[r].ops = << "memory-hit" >>
      /\ req[r].res.cacheLayer = "memory"
      /\ Data(req[r].res) = req[r].priorOp.data

\* C1 happens: a hit right after a set into a full Map whose KV write failed,
\* some time later
C1_Witness ==
  \E r \in Reqs :
    /\ RightAfterSet(r) /\ Answered(r)
    /\ req[r].priorOp.full /\ ~req[r].priorOp.kvOk
    /\ req[r].startedAt > req[r].priorOp.time

\* a fetchSongInfo for the key of slot r had returned less than the TTL
\* before slot r called it
ResolvedWithinTtl(r) ==
  /\ req[r].priorAt # Never
  /\ req[r].startedAt - req[r].priorAt < CACHE_TTL_MS

\* C2, as claimed: once fetchSongInfo has been called for a key, a later call
\* for that key within one TTL does not scrape.
C2_NoSecondScrape ==
  \A r \in Reqs : req[r].scraped => ~ResolvedWithinTtl(r)

\* C2, amended: a fetchSongInfo scrapes only when its memory lookup found no
\* entry of at most TTL age and its KV read failed or came after the KV
\* entry (if any) had expired.  Only results with a bpm are ever stored, so
\* only those spare the later call its scrape.
C2_CachedResultNotScrapedAgain ==
  \A r \in Reqs :
    req[r].scraped =>
      /\ ~(req[r].priorMem.present
           /\ req[r].startedAt - req[r].priorMem.timestamp <= CACHE_TTL_MS)
      /\ ~(req[r].priorKv.present
           /\ req[r].kvReadAt < req[r].priorKv.expiresAt
           /\ req[r].ops[2] # "kv-read-error")

\* C2 happens: a second call for a key, within the TTL of the first, which
\* had stored its result, is answered from the cache
C2_Witness ==
  \E r \in Reqs :
    /\ Answered(r) /\ Resolving(r) /\ ~req[r].scraped
    /\ ResolvedWithinTtl(r)
    /\ req[r].priorOp.op = "set" /\ req[r].priorOp.key = req[r].cacheKey

\* no fetch of slot r threw
NothingThrew(r) ==
  \A i \in 1..Len(req[r].fetches) :
    LET f == req[r].fetches[i]
    IN IF f.kind = "direct" THEN ~DirectThrows(f.status) ELSE ~DefaultThrows(f.status)

\* C3, as claimed: on a miss every scraper result, the all-null one too, is
\* passed to setCache.
C3_EveryResultCached ==
  \A r \in Reqs :
    (Answered(r) /\ req[r].scraped /\ NothingThrew(r)) => req[r].didSet

\* C3, amended: on a miss setCache is called exactly for a result with a bpm;
\* the all-null record is returned without being stored.
C3_OnlyBpmResultCached ==
  \A r \in Reqs :
    (Answered(r) /\ req[r].scraped) =>
      /\ req[r].didSet <=> req[r].res.bpm # Null
      /\ req[r].didSet =>
           /\ Data(req[r].res) = req[r].info
           /\ MapHas(memoryCache, req[r].cacheKey)
           /\ MapGet(memoryCache, req[r].cacheKey).data = req[r].info
      /\ ~req[r].didSet =>
           /\ Data(req[r].res) = EmptyInfo
           /\ \A i \in 1..Len(req[r].ops) : req[r].ops[i] \notin { "memory-set", "kv-set" }

\* C3 happens: a scrape found nothing and nothing was stored
C3_Witness ==
  \E r \in Reqs :
    /\ Answered(r) /\ req[r].scraped /\ NothingThrew(r)
    /\ req[r].res.bpm = Null /\ ~req[r].didSet
    /\ ~MapHas(memoryCache, req[r].cacheKey)

\* the scrape of slot r ended on a timeout or on an HTTP failure other than 404
ScrapeFailed(r) ==
  /\ req[r].fetches # << >>
  /\ LET f == Last(req[r].fetches)
     IN /\ IF f.kind = "direct" THEN DirectThrows(f.status) ELSE DefaultThrows(f.status)
        /\ f.status # 404

Absent(r) ==
  /\ Len(req[r].fetches) = 2
  /\ req[r].fetches[1].status = 404
  /\ \/ req[r].fetches[2].status = 404
     \/ req[r].fetches[2].status = 200 /\ ~req[r].fetches[2].songUrl

\* C5: a song absent from the provider is answered HTTP 200 with bpm, key
\* and genre null.
C5_AbsentIs200Null ==
  \A r \in Reqs :
    (Answered(r) /\ Absent(r)) =>
      /\ req[r].res.status = 200
      /\ Data(req[r].res) = EmptyInfo

\* C5 happens: both the direct URL and the artist page were 404
C5_Witness ==
  \E r \in Reqs :
    /\ Answered(r) /\ Absent(r)
    /\ req[r].fetches[2].status = 404
    /\ req[r].res.status = 200

\* slot r holds a GET whose artist or title is absent or the empty string
MissingParameter(r) ==
  /\ req[r].pc # "idle"
  /\ req[r].method = "GET"
  /\ req[r].artist \in { Undefined, << >> } \/ req[r].title \in { Undefined, << >> }

\* C6: a GET without artist or without title is answered 400 and does
\* nothing else: no cache lookup, no cache write, no fetch; the Map and the KV
\* store are as they were.
C6_BadRequestNoEffect ==
  [][\A r \in Reqs :
       (req[r].pc = "idle" /\ MissingParameter(r)') =>
         /\ req'[r].pc = "done"
         /\ req'[r].res.status = 400
         /\ req'[r].ops = << >> /\ req'[r].fetches = << >>
         /\ ~req'[r].scraped /\ ~req'[r].didSet
         /\ UNCHANGED << memoryCache, kv >>]_vars

\* C6 happens: a GET with an empty artist has been answered 400
C6_Witness ==
  \E r \in Reqs :
    /\ MissingParameter(r) /\ Answered(r)
    /\ req[r].artist = << >> /\ req[r].title \in Titles
    /\ req[r].res.status = 400

BpmValid(bpm) == bpm = Null \/ (Len(bpm) = 1 /\ bpm[1] \in 40..240)

\* C7: every bpm answered, scraped or from either tier, and every bpm held in
\* the Map or in the KV store, is null or an integer in 40..240.
C7_BpmInRange ==
  /\ \A r \in Reqs :
       (Answered(r) /\ Resolving(r) /\ req[r].res.status = 200) => BpmValid(req[r].res.bpm)
  /\ \A r \in Reqs : BpmValid(req[r].info.bpm)
  /\ \A i \in 1..Len(memoryCache) : BpmValid(memoryCache[i].data.bpm)
  /\ \A k \in AllKeys : kv[k].present => BpmValid(kv[k].data.bpm)

\* C7 happens: a page whose first number is 241 was scraped; 241 was skipped
\* and the page's 120 is answered and stored
C7_Witness ==
  \E r \in Reqs :
    /\ Answered(r) /\ req[r].scraped
    /\ req[r].info = extractSongInfo(PageSong)
    /\ req[r].res.bpm = Some(120)
    /\ kv[req[r].cacheKey].present /\ kv[req[r].cacheKey].data.bpm = Some(120)

\* C8: a KV failure is not seen by the caller.  A failed kv.set leaves the
\* Map as setCache wrote it, the value in it, and the answer is the 200 with
\* the scraped info; a failed kv.get is a miss, after which the scrape begins;
\* no answer after a KV failure is an error.
C8_KvFailureSwallowed ==
  [][\A r \in Reqs :
       /\ (req[r].pc = "kvset" /\ req'[r].ops = Append(req[r].ops, "kv-write-error")) =>
            /\ memoryCache' = memoryCache
            /\ MapHas(memoryCache', req[r].cacheKey)
            /\ MapGet(memoryCache', req[r].cacheKey).data = req[r].info
            /\ req'[r].pc = "done"
            /\ req'[r].res = HandlerJson(FreshResult(req[r].info))
       /\ (req[r].pc = "kvget" /\ req'[r].ops = Append(req[r].ops, "kv-read-error")) =>
            /\ req'[r].pc = "direct"
            /\ UNCHANGED << memoryCache, kv >>
       /\ (req[r].pc # "done" /\ req'[r].pc = "done"
           /\ \E i \in 1..Len(req'[r].ops) :
                req'[r].ops[i] \in { "kv-read-error", "kv-write-error" }) =>
            req'[r].res.status = 200]_vars

\* C8 happens: one invocation met a failed kv.get and a failed kv.set and
\* answered 200 with its scraped bpm, which is in the Map
C8_Witness ==
  \E r \in Reqs :
    /\ Answered(r)
    /\ req[r].ops = << "memory-miss", "kv-read-error", "memory-set", "kv-write-error" >>
    /\ req[r].res.status = 200 /\ req[r].res.bpm # Null
    /\ MapHas(memoryCache, req[r].cacheKey)

\* C9: the provenance answered is right: 'fresh' and cached = false exactly
\* when this invocation scraped; 'memory' exactly when the Map served it;
\* 'kv' exactly when the KV store served it; a cached answer made no fetch.
C9_ProvenanceAccurate ==
  \A r \in Reqs :
    (Answered(r) /\ Resolving(r) /\ req[r].res.status = 200) =>
      /\ req[r].res.cacheLayer \in { "fresh", "memory", "kv" }
      /\ req[r].res.cacheLayer = "fresh" <=> req[r].scraped
      /\ req[r].res.cached <=> ~req[r].scraped
      /\ req[r].res.cacheLayer = "memory" <=> req[r].ops = << "memory-hit" >>
      /\ req[r].res.cacheLayer = "kv" <=> Last(req[r].ops) = "kv-hit"
      /\ req[r].res.cached => req[r].fetches = << >>

\* C9 happens: an answer served by the KV store, named so, without a scrape
C9_Witness ==
  \E r \in Reqs :
    /\ Answered(r) /\ Resolving(r)
    /\ req[r].res.status = 200 /\ req[r].res.cached
    /\ req[r].res.cacheLayer = "kv" /\ ~req[r].scraped

\* C10, as claimed: the Map never holds more than MAX_MEMORY_CACHE_SIZE
\* entries.  (The promotion in getCache inserts without evicting.)
C10_MemoryBounded == Len(memoryCache) <= MAX_MEMORY_CACHE_SIZE

\* ------------------------------------------------------------------- slugs
\* the text has been normalized, and its slug normalized again
Renormalized == slug.step = 2

\* C13: each slug normalizer is idempotent: normalizing the slug of a text
\* gives that slug again, for normalizeForUrl and for createSlug.
C13_Idempotent == Renormalized => slug.again = slug.out

\* C13 holds of normalizeForUrl taken alone
NormalizeForUrlIdempotent ==
  (Renormalized /\ slug.fn = "normalizeForUrl") => slug.again = slug.out

\* ^[a-z0-9]+(-[a-z0-9]+)*$
MatchesSlugPattern(s) ==
  /\ s # << >>
  /\ \A i \in 1..Len(s) : IsLower(s[i]) \/ IsDigit(s[i]) \/ s[i] = "-"
  /\ s[1] # "-" /\ s[Len(s)] # "-"
  /\ \A i \in 1..(Len(s) - 1) : ~(s[i] = "-" /\ s[i + 1] = "-")

\* C14: the output of a slug normalizer is the empty string or lowercase
\* alphanumeric runs joined by single hyphens, with no hyphen at either end.
C14_SlugPattern ==
  slug.step >= 1 => (slug.out = << >> \/ MatchesSlugPattern(slug.out))

\* C14 happens: normalizeForUrl has made a slug with a hyphen in it from a
\* text with a run of hyphens, and createSlug the empty slug from a text
\* that is not empty
C14_Witness ==
  /\ slug.step = 1
  /\ \/ /\ slug.fn = "normalizeForUrl"
        /\ slug.text = << "A", "-", "-", "f" >>
        /\ slug.out = << "a", "-", "f" >>
     \/ /\ slug.fn = "createSlug" /\ slug.text # << >> /\ slug.out = << >>

\* -------------------------------------------------------------- the search
\* search slot s took the cached token / went to the exchange
TookCachedToken(s) == search[s].tokenFrom = "cache"
WentToExchange(s) ==
  \/ search[s].pc = "token"
  \/ search[s].tokenFrom = "exchange"
  \/ search[s].failure \in TokenFailures

\* acquisition + advertised expires_in - 60 s, for an exchange that advertised one
ReuseDeadline(exchange) ==
  exchange.at + exchange.expires_in[1] * 1000 - 60000

\* the token request of slot s kept to the reuse window of the token that
\* was cached when it was made
InReuseWindow(s) ==
  LET exchange == search[s].priorAcquired
  IN (exchange.done /\ exchange.expires_in # Null) =>
       /\ TookCachedToken(s) =>
            /\ search[s].tokenAt < ReuseDeadline(exchange)
            /\ search[s].token = exchange.token
       /\ WentToExchange(s) => search[s].tokenAt >= ReuseDeadline(exchange)

\* C11: a token from one exchange is reused by a later token request only
\* while now < acquisition + advertised expires_in - 60 s; while that holds
\* no exchange is made, and from that instant on the next token request
\* makes a new exchange.
C11_TokenReuseWindow == \A s \in Searches : InReuseWindow(s)

\* C11 holds of getAccessToken of spotifyAuth.js taken alone
GetAccessTokenReuseWindow ==
  \A s \in Searches : search[s].impl = "backend" => InReuseWindow(s)

\* the search of slot s has been answered / its token exchange or its
\* catalog request failed
SearchAnswered(s) == search[s].pc = "done"
SearchFailed(s) == search[s].failure # ""

Selected == selection.step = 1

\* the track the scoring loop leaves in bestTrack
Winner == ScoringLoop(selection.tracks, selection.query, 1, InitialBest).index

TopPopularity ==
  CHOOSE p \in { selection.tracks[i].popularity : i \in 1..Len(selection.tracks) } :
    \A i \in 1..Len(selection.tracks) : selection.tracks[i].popularity <= p

\* the winner has popularity < 30 and score < 40
WinnerDoubtful ==
  /\ selection.tracks[Winner].popularity < 30
  /\ Score5(selection.tracks[Winner], selection.query) < 5 * 40

C16_HighestScoreWins ==
  Selected =>
    \A i \in 1..Len(selection.tracks) :
      /\ Score5(selection.tracks[i], selection.query)
           <= Score5(selection.tracks[Winner], selection.query)
      /\ i < Winner =>
           Score5(selection.tracks[i], selection.query)
             < Score5(selection.tracks[Winner], selection.query)

\* C16 holds of the lists with a track of score 0 or more
HighestScoreWinsUnlessAllNegative ==
  (Selected /\ \E i \in 1..Len(selection.tracks) :
                 Score5(selection.tracks[i], selection.query) >= 0) =>
    \A i \in 1..Len(selection.tracks) :
      /\ Score5(selection.tracks[i], selection.query)
           <= Score5(selection.tracks[Winner], selection.query)
      /\ i < Winner =>
           Score5(selection.tracks[i], selection.query)
             < Score5(selection.tracks[Winner], selection.query)

\* ------------------------------------------------------ song-info, continued
Scraping == { "direct", "artist", "song" }
SetOps == { "memory-set", "kv-set", "kv-write-error" }

\* C17: a fetchSongInfo whose scrape fails on a timeout or an HTTP failure
\* calls no setCache: no step of its scrape changes the Map or the KV store,
\* and when it has answered neither holds anything for its key that was not
\* there before.
C17_FailedScrapeStoresNothing ==
  /\ [](\A r \in Reqs :
          (Answered(r) /\ ScrapeFailed(r)) =>
            /\ \A i \in 1..Len(req[r].ops) : req[r].ops[i] \notin SetOps
            /\ ~MapHas(memoryCache, req[r].cacheKey)
            /\ kv[req[r].cacheKey] = req[r].priorKv)
  /\ [][\A r \in Reqs :
          (req[r].pc \in Scraping /\ req'[r] # req[r] /\ ScrapeFailed(r)') =>
            UNCHANGED << memoryCache, kv >>]_vars

\* C17 happens: the memory entry of the key had expired and was deleted, and
\* the direct fetch of the scrape that followed was answered 500
C17_Witness ==
  \E r \in Reqs :
    /\ Answered(r) /\ ScrapeFailed(r)
    /\ req[r].ops[1] = "memory-expired"
    /\ Last(req[r].fetches).kind = "direct" /\ Last(req[r].fetches).status = 500
    /\ Len(memoryCache) < MAX_MEMORY_CACHE_SIZE

\* slot r takes the step of setCache that writes the Map / is answered from
\* the Map
SetsMemory(r) == req[r].pc \in Scraping /\ req'[r].pc = "kvset"
HitsMemory(r) == req[r].pc = "idle" /\ req'[r].ops = << "memory-hit" >>

\* C18: setCache removes an entry of the Map only at capacity, and then
\* exactly the one inserted longest ago, before it appends the new entry; a
\* memory hit leaves the Map, and so the eviction order, as it is.
C18_EvictsOldestAtCapacity ==
  [][\A r \in Reqs :
       /\ SetsMemory(r) =>
            /\ ~MapHas(memoryCache, req[r].cacheKey)
            /\ memoryCache' =
                 Append(IF Len(memoryCache) >= MAX_MEMORY_CACHE_SIZE
                        THEN Tail(memoryCache) ELSE memoryCache,
                        [key |-> req[r].cacheKey, data |-> req'[r].info,
                         timestamp |-> now])
       /\ HitsMemory(r) => memoryCache' = memoryCache]_vars

\* C18 happens: a set into the Map of 50 entries has left the last 49 of
\* them and the new key, in the order of their insertion
C18_Witness ==
  /\ lastOp.op = "set" /\ lastOp.full
  /\ Len(memoryCache) = MAX_MEMORY_CACHE_SIZE
  /\ \A i \in 1..(MAX_MEMORY_CACHE_SIZE - 1) :
       memoryCache[i] = Fillers(MAX_MEMORY_CACHE_SIZE)[i + 1]
  /\ memoryCache[MAX_MEMORY_CACHE_SIZE].key = lastOp.key

\* the age of the memory entry slot r found for its key
AgeFound(r) == req[r].startedAt - req[r].priorMem.timestamp

\* C19: getCache serves a memory entry exactly when its age is at most the
\* TTL; an older entry is deleted and the lookup goes on to the KV store.
C19_NoExpiredMemoryHit ==
  \A r \in Reqs :
    Resolving(r) =>
      /\ req[r].ops[1] = "memory-hit" <=>
           (req[r].priorMem.present /\ AgeFound(r) <= CACHE_TTL_MS)
      /\ req[r].ops[1] = "memory-expired" <=>
           (req[r].priorMem.present /\ AgeFound(r) > CACHE_TTL_MS)
      /\ req[r].ops[1] = "memory-expired" =>
           /\ req[r].pc = "kvget" \/ Len(req[r].ops) >= 2
           /\ req[r].pc = "kvget" => ~MapHas(memoryCache, req[r].cacheKey)

\* C19 happens: an entry of exactly the TTL's age has been served from memory
C19_Witness ==
  \E r \in Reqs :
    /\ Answered(r) /\ req[r].ops = << "memory-hit" >>
    /\ AgeFound(r) = CACHE_TTL_MS
    /\ req[r].res.cacheLayer = "memory"

\* kv.get of slot r has answered
KvAnswered(r) == Len(req[r].ops) >= 2 /\ req[r].ops[2] # "kv-read-error"
\* the KV store held a live value for the key of slot r when it was read
KvHeld(r) == req[r].priorKv.present /\ req[r].kvReadAt < req[r].priorKv.expiresAt

Direct(r) == req[r].fetches[1]
\* the scrape of slot r has ended and the handler has answered
Scraped(r) == Answered(r) /\ req[r].scraped /\ req[r].fetches # << >>
\* the direct fetch gave the bpm that was returned
DirectGaveBpm(r) == Len(req[r].fetches) = 1 /\ req[r].didSet
\* the artist page was requested after the direct URL
FallbackAttempted(r) == Len(req[r].fetches) >= 2 /\ req[r].fetches[2].kind = "artist"

C22_NoUrlFetchedTwice ==
  \A r \in Reqs :
    /\ Len(req[r].fetches) <= 3
    /\ \A i, j \in 1..Len(req[r].fetches) :
         i < j => req[r].fetches[i].url # req[r].fetches[j].url

\* C24: no direct URL is built and requested from an artist or a title whose
\* slug is empty.
C24_NoDirectUrlFromEmptySlug ==
  \A r \in Reqs :
    \A i \in 1..Len(req[r].fetches) :
      req[r].fetches[i].kind = "direct" =>
        /\ normalizeForUrl(req[r].artist) # << >>
        /\ normalizeForUrl(req[r].title) # << >>

\* ------------------------------------------------- overlapping invocations
\* slot o is suspended in setCache, at await kv.set, its key in the Map
SuspendedInSet(o) == req[o].pc = "kvset" /\ MapHas(memoryCache, req[o].cacheKey)

\* C23: a setCache of a new key that runs on a Map at capacity while another
\* setCache, of another new key, is suspended at its await kv.set: it evicts
\* one entry, the oldest, and inserts its own key; the key of the suspended
\* setCache stays, and the Map is at capacity afterwards, not above.
C23_ConcurrentSetsBothKept ==
  [][\A r \in Reqs :
       (/\ SetsMemory(r)
        /\ Len(memoryCache) = MAX_MEMORY_CACHE_SIZE
        /\ ~MapHas(memoryCache, req[r].cacheKey)) =>
         /\ memoryCache' =
              Append(Tail(memoryCache),
                     [key |-> req[r].cacheKey, data |-> req'[r].info, timestamp |-> now])
         /\ Len(memoryCache') = MAX_MEMORY_CACHE_SIZE
         /\ \A o \in Reqs \ { r } :
              SuspendedInSet(o) => MapHas(memoryCache', req[o].cacheKey)]_vars

\* C23 happens: two setCache calls of two new keys overlap on the Map that
\* was full; both keys are in the Map, the two oldest entries are gone, and
\* the Map holds 50 entries
C23_Witness ==
  \E r, o \in Reqs :
    /\ r # o /\ SuspendedInSet(r) /\ SuspendedInSet(o)
    /\ req[r].cacheKey # req[o].cacheKey
    /\ ~req[r].priorMem.present /\ ~req[o].priorMem.present
    /\ Len(memoryCache) = MAX_MEMORY_CACHE_SIZE
    /\ memoryCache[1] = Fillers(MAX_MEMORY_CACHE_SIZE)[3]
    /\ memoryCache[MAX_MEMORY_CACHE_SIZE - 1].key = req[o].cacheKey
    /\ memoryCache[MAX_MEMORY_CACHE_SIZE].key = req[r].cacheKey

\* ------------------------------------------------------- how old a hit is
\* the handler of slot r answered from a cache tier
ServedFromCache(r) ==
  /\ Answered(r) /\ req[r].res.status = 200 /\ req[r].ops # << >>
  /\ Last(req[r].ops) \in { "memory-hit", "kv-hit" }

\* PreloadInfo is the result of no page a scrape of this run can meet: it
\* comes from the one setCache that stored it in the KV store at time 0, so
\* an answer that carries it is as old as the clock shows
PreloadAge(r) == req[r].startedAt

\* C25: data answered from a cache tier was scraped at most CACHE_TTL_MS
\* before; the promotion of a KV hit does not prolong its life.
C25_BoundedStaleness ==
  \A r \in Reqs :
    (ServedFromCache(r) /\ Data(req[r].res) = PreloadInfo) =>
      PreloadAge(r) <= CACHE_TTL_MS

\* ------------------------------------------------------------ cache keys
\* C26: two queries have the same cache key only when their artists and
\* their titles are the same up to case.
C26_KeyInjectiveUpToCase ==
  (keyed.step = 1 /\ keyed.keys[1] = keyed.keys[2]) =>
    /\ ToLowerCase(keyed.first.artist) = ToLowerCase(keyed.second.artist)
    /\ ToLowerCase(keyed.first.title) = ToLowerCase(keyed.second.title)

\* ------------------------------------------------------------ the frontend
\* C30: when handleSubmitQuery is over and did not end with a match (no
\* track in the results, a response that is not ok, an error), bpm, key and
\* genre are all null.
C30_NoMatchClearsFeatures ==
  (app.pc = "idle" /\ app.path \in { "empty", "not-ok", "error" }) =>
    /\ app.bpm = Null /\ app.key = Null /\ app.genre = Null

\* -------------------------------------------- overlapping get and set
\* slot r resumes from await kv.get with a value
ResumesWithKvHit(r) ==
  /\ req[r].pc = "kvget" /\ req'[r].pc = "done"
  /\ Last(req'[r].ops) = "kv-hit"

\* C27: a getCache that was suspended at await kv.get and finds, as it
\* resumes, an entry for its key in the Map (written since it missed there,
\* by the setCache of a scrape that ran in the meantime) does not replace
\* that entry's data with the value its KV read answered.
C27_NoStaleOverwrite ==
  [][\A r \in Reqs :
       (ResumesWithKvHit(r) /\ MapHas(memoryCache, req[r].cacheKey)) =>
         MapGet(memoryCache', req[r].cacheKey).data
           = MapGet(memoryCache, req[r].cacheKey).data]_vars

\* ------------------------------------------------------ the token function
\* the token function called by search s has thrown
TokenThrew(s) ==
  search[s].failure \in { "credentials", "token-network", "token-status" }

\* C28: a token function whose exchange fails, or that has no credentials,
\* throws: its caller gets no token and requests no catalog, and the step
\* leaves cachedToken and tokenExpiresAt as they were.  cachedToken only
\* ever holds the access_token of an ok response, and a call that finds no
\* token cached does not return one: it goes to the exchange again.
C28_FailedExchangeLeavesCache ==
  /\ [](\A s \in Searches :
          /\ TokenThrew(s) =>
               /\ search[s].pc = "done" /\ search[s].token = Null
               /\ search[s].returned # "track"
          /\ search[s].tokenFrom = "cache" =>
               /\ search[s].priorToken # Null /\ search[s].priorAcquired.done
               /\ search[s].token = search[s].priorToken)
  /\ [](\A i \in Impls :
          cachedToken[i] # Null =>
            acquired[i].done /\ cachedToken[i] = acquired[i].token)
  /\ [][\A s \in Searches :
          (~TokenThrew(s) /\ TokenThrew(s)') =>
            UNCHANGED << cachedToken, tokenExpiresAt >>]_vars

\* C28 happens: an exchange of this implementation has failed, nothing is
\* cached, and a later search has requested the exchange again
C28_Witness ==
  \E s \in Searches :
    /\ search[s].pc = "token"
    /\ failed[search[s].impl] > 0
    /\ cachedToken[search[s].impl] = Null
    /\ tokenExpiresAt[search[s].impl] = 0

\* C29: cachedToken and tokenExpiresAt of an implementation are those of one
\* token response: the token it carried, and the time it arrived plus its
\* expires_in less the minute of early refresh; before any response they are
\* null and 0.
C29_TokenAndExpiryFromOneResponse ==
  \A i \in Impls :
    IF acquired[i].done
    THEN /\ cachedToken[i] = acquired[i].token
         /\ tokenExpiresAt[i] =
              acquired[i].at + ExpiresInMs(i, acquired[i].expires_in) - RefreshAheadMs
    ELSE cachedToken[i] = Null /\ tokenExpiresAt[i] = 0

\* C29 happens: two searches of one implementation had their exchanges in
\* flight together, both were answered, and the token and the expiry cached
\* are those of the response that came last, with the shorter life
C29_Witness ==
  \E s, o \in Searches :
    /\ s # o /\ search[s].impl = search[o].impl
    /\ search[s].tokenFrom = "exchange" /\ search[o].tokenFrom = "exchange"
    /\ search[s].token = Some(<< s, 2 >>) /\ search[o].token = Some(<< o, 2 >>)
    /\ cachedToken[search[s].impl] = search[s].token
    /\ acquired[search[s].impl].expires_in = Some(960)
    /\ tokenExpiresAt[search[s].impl] < search[o].tokenAt + 1860 * 1000 - RefreshAheadMs

====
